---- MODULE Spec2Model ----
(***************************************************************************)
(* A model of the Vienna Game Job System: the Job record and its           *)
(* completion protocol (Job::operator(), Job::on_finished,                 *)
(* Job::child_finished), the lock-free JobQueue, the JobSystem worker loop *)
(* and schedule(), and the coroutine promise and awaiters of VECoro.h.     *)
(*                                                                         *)
(* The job system proper (specification Spec) runs NThreads workers and a  *)
(* main thread over a pool of NJobs jobs; the bodies of the jobs are       *)
(* nondeterministic programs: a function schedules children, installs a    *)
(* continuation and returns, a coroutine awaits children, hops threads and *)
(* co_returns.  In Spec a queue operation is one step; the queue's own     *)
(* algorithm is modelled instruction by instruction in the specifications  *)
(* SpecLifo and SpecFifo, and SpecPop is the queue of either kind.         *)
(* SpecCont runs programs of functions with continuations over a pool of   *)
(* ContJobs jobs.  SpecLife is the life of the job system from its         *)
(* construction to its destruction, and SpecCoro the coroutine's promise,  *)
(* frame and future.                                                       *)
(***************************************************************************)
EXTENDS Integers, Sequences, FiniteSets, TLC

NThreads == 2        \* m_thread_count: the number of workers
NJobs == 4           \* the size of the job pool
MaxRoots == 1        \* jobs the main thread schedules
MaxHops == 1         \* co_await thread_index{k} per coroutine
PoolUnits == 5       \* the memory of the pool: a function takes one unit, a coroutine (promise and frame) two
QThreads == 2        \* threads that use the one JobQueue of SpecLifo and SpecFifo
QJobs == 2           \* jobs pushed to that queue
MaxPushes == 2       \* pushes of one job to that queue
ContJobs == 5        \* the size of the job pool in SpecCont
ContUnits == 6       \* the memory of the pool in SpecCont
MaxStartIdx == 1     \* the largest start_idx the job system of SpecLife is constructed with
MaxLJobs == 2        \* jobs the main thread schedules in SpecLife
MaxWaits == 1        \* calls of wait_for_termination() the main thread makes itself in SpecLife
NCoros == 2          \* coroutines (promise, frame and future) of SpecCoro
MaxValue == 1        \* the values of type T are 0..MaxValue
MaxPolls == 1        \* polls that find no job, per thread and setting of its counter, in SpecLife
IdlePolls == 22      \* the same in SpecIdle: enough for noop of thread 0 to pass zero
NCallers == 2        \* threads that call JobSystem::instance() in SpecInstance
MaxCalls == 2        \* calls of instance() by one thread
MaxThreadCount == 2  \* the largest threadCount passed to instance()
HwThreads == 2       \* std::thread::hardware_concurrency()
NFrames == 2         \* coroutine frames allocated at a time in SpecFrame
MaxSz == 9           \* the largest frame size sz passed to operator new
NResources == 2      \* memory resources
NVecs == 2           \* vectors in an awaited tuple
MaxVec == 2          \* elements of an awaited vector
HeapSlots == 4       \* the addresses allocate() returns are 1..HeapSlots times PtrAlign

NoJob == 0           \* nullptr
Central == -1        \* thd = -1: no thread given, the central queue
DefaultValue == 0    \* T{}: the value-initialized T
InitialCount == 2    \* m_count of a new promise: the promise and the future
NOOP == 20           \* thread_task: the number of empty loops until the thread sleeps
PtrAlign == 8        \* alignof(std::pmr::memory_resource*)
PtrSize == 8         \* sizeof(std::pmr::memory_resource*)
NullPtr == 0         \* nullptr as an address

Jobs == 1..(IF NJobs > ContJobs THEN NJobs ELSE ContJobs)
Threads == 0..(NThreads - 1)

VARIABLES
    kind,             \* the dynamic type of each allocated job: "func" | "coro" ("none": not allocated)
    m_children,       \* Job::m_children
    m_parent,         \* Job::m_parent
    m_continuation,   \* Job::m_continuation
    m_coro_parent,    \* Coro_promise_base::m_coro_parent
    m_thread_index,   \* the promise's thread index, set by awaitable_resume_on
    done,             \* coro.done(): the coroutine is at its final suspension point
    m_local_queues,   \* JobSystem::m_local_queues, head first
    m_central_queue,  \* JobSystem::m_central_queue, head first
    pc,               \* where each worker is in thread_task
    m_current_job,    \* JobSystem::m_current_job of each worker thread
    fin,              \* the job whose on_finished a worker executes
    nalloc,           \* jobs created so far
    pool,             \* the job pool of this run: the jobs and the units of memory it can hold
    nroots,           \* jobs the main thread has scheduled
    hops,             \* thread hops each coroutine has awaited
    sched_thd,        \* history: the thd each job was scheduled with
    tree_parent,      \* history: the job each job is a child of (scheduled by, or inherited)
    cont_of,          \* history: the job each continuation was installed on
    completed,        \* history: the on_finished that completes the job has begun
    fin_open,         \* history: on_finished has begun since the job last started
    late_cf,          \* history: jobs that got a child_finished after their on_finished began
    resched,          \* history: the on_finished a worker executes found m_continuation == this and no m_parent
    pushes,           \* history: how often each job was pushed to a queue
    suspends,         \* history: how often each coroutine suspended at a co_await
    m_head,           \* JobQueue::m_head of the queue of SpecLifo and SpecFifo
    m_next,           \* Job::m_next of the jobs of that queue
    q_pc,             \* where each thread is in push() or pop()
    q_job,            \* push: pJob; pop: the local head
    q_arg,            \* pop: head->m_next as evaluated for the compare-and-swap
    q_retry,          \* pop: a compare-and-swap of this call has failed
    q_pushed,         \* history: pushes of each job that took effect
    q_popped,         \* history: pops that returned each job
    q_before,         \* history: the jobs queued when the push of each job started
    q_log,            \* history: how the pops of the FIFO queue returned jobs, in order or not
    q_seen,           \* history: the latest read of m_head by the thread's pop saw nullptr
    q_fifo,           \* the template argument FIFO of the queue of SpecPop
    f_state,          \* of each coroutine frame: "none", "live", or "terminated" after std::terminate
    f_ptr,            \* the pointer operator new returned for the frame
    f_sz,             \* the frame size sz the compiler passes to operator new and operator delete
    mem,              \* the memory resource whose pointer is stored at each address, 0 if none
    mr_blocks,        \* of each memory resource: the blocks <<pointer, bytes>> allocated from it
    f_alloc,          \* history: <<mr, pointer, bytes>> of the allocate of the frame's operator new
    a_pc,             \* where the awaiting coroutine of SpecAwait is
    a_kind,           \* what it awaits: "coro" (one child), "vector" or "tuple" (of vectors)
    a_sizes,          \* size() of each awaited vector
    a_pos,            \* await_suspend: the vector and the element scheduled next
    a_children,       \* m_children of the awaiting promise
    a_sched,          \* history: how often each element was scheduled as child of the promise
    a_done,           \* history: the elements that have finished
    x_pc,             \* where a caller of thread_task beyond the m_thread_count threads is
    x_job,            \* m_current_job of that caller's thread
    x_noop,           \* noop of that caller's thread
    m_start_idx,      \* JobSystem::m_start_idx
    m_terminate,      \* JobSystem::m_terminate
    m_threads,        \* JobSystem::m_threads: the thread indexes of the spawned threads, in order
    joinable,         \* std::thread::joinable() of each spawned thread
    thread_counter,   \* the static thread_counter of thread_task
    t_pc,             \* where the thread with each thread index is in thread_task
    t_from,           \* the queue the job a thread executes was popped from (a thread index or Central)
    main_pc,          \* where the thread that constructed the job system is
    in_dtor,          \* the wait_for_termination() under way is the destructor's
    join_i,           \* wait_for_termination: the position in m_threads
    n_local,          \* the number of jobs in each local queue
    n_central,        \* the number of jobs in the central queue
    l_sched,          \* history: jobs the main thread has scheduled
    l_thds,           \* history: the out-of-range thd arguments the main thread has scheduled jobs with
    ran0_by,          \* history: the threads that executed a job of local queue 0
    entered0,         \* history: the main thread has called thread_task(0)
    waits,            \* history: calls of wait_for_termination() by the main thread that returned
    noop,             \* the thread_local noop of thread_task, of each thread
    empty_run,        \* history: the polls in a row that found no job, since the thread last found one or slept
    poll_cap,         \* the polls that find no job this run follows, per thread and setting of noop
    once,             \* the std::once_flag of instance(): "clear" | "active" | "set"
    m_instance,       \* JobSystem::m_instance: the job system it points to
    i_pc,             \* where each calling thread is in instance()
    i_args,           \* threadCount and start_idx of the thread's call
    i_calls,          \* calls of instance() the thread has made
    i_ret,            \* history: what the thread's latest call returned
    i_first,          \* history: the arguments of the call that constructed the first job system
    i_built,          \* history: job systems constructed
    m_coro,           \* Coro::m_coro of each future: TRUE while the future holds the handle
    m_count,          \* m_count of each promise
    m_value,          \* Coro_promise::m_value
    c_done,           \* the coroutine is at its final suspension point
    c_destroyed,      \* how often the frame was destroyed
    c_dropped,        \* history: what current_job() was when the future was dropped ("no": not dropped)
    c_returned,       \* history: the value the coroutine co_returned (as a set; empty before co_return)
    c_got,            \* history: the results of get(), each with whether co_return had been reached
    c_at,             \* where the coroutine is: "none", "created", "queued", "running" or "final"
    c_parent,         \* the kind of m_coro_parent: "unset" until schedule(), then "none", "job" or "coro"
    c_resumed,        \* history: Job::operator() has resumed the coroutine
    c_notified        \* history: the coroutine has called child_finished() of its parent

jobvars == <<kind, m_children, m_parent, m_continuation, m_coro_parent, m_thread_index, done>>
queuevars == <<m_local_queues, m_central_queue>>
workervars == <<pc, m_current_job, fin>>
histvars == <<sched_thd, tree_parent, cont_of, completed, fin_open, late_cf, resched, pushes, suspends>>
sysvars == <<jobvars, queuevars, workervars, nalloc, nroots, hops, histvars>>
qvars == <<m_head, m_next, q_pc, q_job, q_arg, q_retry, q_pushed, q_popped, q_before, q_log, q_seen>>
lifevars == <<m_start_idx, m_terminate, m_threads, joinable, thread_counter, t_pc, t_from,
              main_pc, in_dtor, join_i, n_local, n_central, l_sched, l_thds, ran0_by, entered0, waits>>
loopvars == <<noop, empty_run, poll_cap>>
instvars == <<once, m_instance, i_pc, i_args, i_calls, i_ret, i_first, i_built>>
corovars == <<m_coro, m_count, m_value, c_done, c_destroyed, c_dropped, c_returned, c_got,
              c_at, c_parent, c_resumed, c_notified>>
framevars == <<f_state, f_ptr, f_sz, mem, mr_blocks, f_alloc>>
awaitvars == <<a_pc, a_kind, a_sizes, a_pos, a_children, a_sched, a_done>>
entervars == <<x_pc, x_job, x_noop>>
vars == <<sysvars, qvars, pool, lifevars, loopvars, instvars, corovars, q_fifo, framevars, awaitvars,
          entervars>>
\* what the job system's actions leave alone, and what the queue's actions leave alone
beside_sys == <<qvars, pool, lifevars, loopvars, instvars, corovars, q_fifo, framevars, awaitvars, entervars>>
beside_queue == <<sysvars, pool, lifevars, loopvars, instvars, corovars, q_fifo, framevars, awaitvars, entervars>>
beside_life == <<jobvars, queuevars, pc, fin, nalloc, nroots, hops, histvars, qvars, pool, instvars,
                 corovars, q_fifo, framevars, awaitvars, entervars>>
beside_coro == <<sysvars, qvars, pool, lifevars, loopvars, instvars, q_fifo, framevars, awaitvars, entervars>>
beside_inst == <<sysvars, qvars, pool, lifevars, loopvars, corovars, q_fifo, framevars, awaitvars, entervars>>
beside_frame == <<sysvars, qvars, pool, lifevars, loopvars, instvars, corovars, q_fifo, awaitvars, entervars>>
beside_await == <<sysvars, qvars, pool, lifevars, loopvars, instvars, corovars, q_fifo, framevars, entervars>>
beside_enter == <<jobvars, queuevars, pc, fin, nalloc, nroots, hops, histvars, qvars, pool, instvars,
                  corovars, q_fifo, framevars, awaitvars>>

QJobSet == 1..QJobs
Coros == 1..NCoros
Values == 0..MaxValue
QThreadSet == 1..QThreads
Callers == 1..NCallers

(***************************************************************************)
(* JobQueue, one step per operation.                                       *)
(***************************************************************************)
\* JobQueue::push: the job becomes the head
push(q, job) == <<job>> \o q

\* JobQueue<false>::pop: the head, or nullptr
pop_lifo(q) == IF q = <<>> THEN NoJob ELSE Head(q)

\* JobQueue<true>::pop: the last job of the list, or the head if it is alone
pop_fifo(q) == IF q = <<>> THEN NoJob ELSE q[Len(q)]

\* the queue without the job pop returned
rest_lifo(q) == IF q = <<>> THEN q ELSE Tail(q)

rest_fifo(q) == IF q = <<>> THEN q ELSE SubSeq(q, 1, Len(q) - 1)

(***************************************************************************)
(* JobSystem::schedule(job, thd), called on a thread whose m_thread_index  *)
(* is idx.                                                                 *)
(***************************************************************************)
\* the local queue schedule() pushes to when thd names a thread
schedule_local_index(idx, thd) == idx

\* a test that takes every thd that is not negative for the index of a thread
names_thread_nonneg(thd) == thd >= 0

\* if (thd >= 0 && thd < (int)m_thread_count)
names_thread(thd) == thd >= 0 /\ thd < NThreads

schedule(idx, job, thd) ==
    /\ IF names_thread(thd)
       THEN /\ m_local_queues' = [m_local_queues EXCEPT
                   ![schedule_local_index(idx, thd)] = push(@, job)]
            /\ UNCHANGED m_central_queue
       ELSE /\ m_central_queue' = push(m_central_queue, job)
            /\ UNCHANGED m_local_queues
    /\ pushes' = [pushes EXCEPT ![job] = @ + 1]

SysInit ==
    /\ kind = [j \in Jobs |-> "none"]
    /\ m_children = [j \in Jobs |-> 1]
    /\ m_parent = [j \in Jobs |-> NoJob]
    /\ m_continuation = [j \in Jobs |-> NoJob]
    /\ m_coro_parent = [j \in Jobs |-> NoJob]
    /\ m_thread_index = [j \in Jobs |-> Central]
    /\ done = [j \in Jobs |-> FALSE]
    /\ m_local_queues = [t \in Threads |-> <<>>]
    /\ m_central_queue = <<>>
    /\ pc = [t \in Threads |-> "poll"]
    /\ m_current_job = [t \in Threads |-> NoJob]
    /\ fin = [t \in Threads |-> NoJob]
    /\ nalloc = 0
    /\ nroots = 0
    /\ hops = [j \in Jobs |-> 0]
    /\ sched_thd = [j \in Jobs |-> Central]
    /\ tree_parent = [j \in Jobs |-> NoJob]
    /\ cont_of = [j \in Jobs |-> NoJob]
    /\ completed = [j \in Jobs |-> FALSE]
    /\ fin_open = [j \in Jobs |-> FALSE]
    /\ late_cf = {}
    /\ resched = [t \in Threads |-> FALSE]
    /\ pushes = [j \in Jobs |-> 0]
    /\ suspends = [j \in Jobs |-> 0]

QInit ==
    /\ m_head = NoJob
    /\ m_next = [j \in QJobSet |-> NoJob]
    /\ q_pc = [t \in QThreadSet |-> "idle"]
    /\ q_job = [t \in QThreadSet |-> NoJob]
    /\ q_arg = [t \in QThreadSet |-> NoJob]
    /\ q_retry = [t \in QThreadSet |-> FALSE]
    /\ q_pushed = [j \in QJobSet |-> 0]
    /\ q_popped = [j \in QJobSet |-> 0]
    /\ q_before = [j \in QJobSet |-> {}]
    /\ q_log = [early |-> {}, inorder |-> {}, after |-> {}]
    /\ q_seen = [t \in QThreadSet |-> FALSE]

\* the elements of a set of thread indexes in ascending order
ascending(S) ==
    [k \in 1..Cardinality(S) |-> CHOOSE i \in S : Cardinality({x \in S : x < i}) = k - 1]

\* a constructor that spawns a thread for every thread index
spawned_all(i, start_idx) == TRUE

\* for (i = start_idx; i < m_thread_count; i++): the constructor spawns a thread for index i
spawned(i, start_idx) == i >= start_idx

\* JobSystem::JobSystem(threadCount = NThreads, start_idx), and thread_counter = m_thread_count
JobSystem(start_idx) ==
    /\ m_start_idx = start_idx
    /\ m_terminate = FALSE
    /\ m_threads = ascending({i \in Threads : spawned(i, start_idx)})
    /\ joinable = [t \in Threads |-> spawned(t, start_idx)]
    /\ thread_counter = NThreads
    /\ t_pc = [t \in Threads |-> IF spawned(t, start_idx) THEN "entry" ELSE "none"]
    /\ t_from = [t \in Threads |-> Central]
    /\ main_pc = "user"
    /\ in_dtor = FALSE
    /\ join_i = 1
    /\ n_local = [t \in Threads |-> 0]
    /\ n_central = 0
    /\ l_sched = 0
    /\ l_thds = {}
    /\ ran0_by = {}
    /\ entered0 = FALSE
    /\ waits = 0
    /\ noop = [t \in Threads |-> NOOP]
    /\ empty_run = [t \in Threads |-> 0]

\* no job system: JobSystem::m_instance holds nullptr
NoInstance == [id |-> 0, m_thread_count |-> 0, m_start_idx |-> 0]

\* the static once_flag and m_instance before the first call of instance()
InstInit ==
    /\ once = "clear"
    /\ m_instance = NoInstance
    /\ i_pc = [c \in Callers |-> "out"]
    /\ i_args = [c \in Callers |-> <<0, 0>>]
    /\ i_calls = [c \in Callers |-> 0]
    /\ i_ret = [c \in Callers |-> NoInstance]
    /\ i_first = <<0, 0>>
    /\ i_built = 0

\* no coroutine has been created: no future holds a handle
CoroInit ==
    /\ m_coro = [f \in Coros |-> FALSE]
    /\ m_count = [f \in Coros |-> InitialCount]
    /\ m_value = [f \in Coros |-> DefaultValue]
    /\ c_done = [f \in Coros |-> FALSE]
    /\ c_destroyed = [f \in Coros |-> 0]
    /\ c_dropped = [f \in Coros |-> "no"]
    /\ c_returned = [f \in Coros |-> {}]
    /\ c_got = [f \in Coros |-> {}]
    /\ c_at = [f \in Coros |-> "none"]
    /\ c_parent = [f \in Coros |-> "unset"]
    /\ c_resumed = [f \in Coros |-> FALSE]
    /\ c_notified = [f \in Coros |-> FALSE]

\* no coroutine frame is allocated; no pointer to a memory resource is in memory
Frames == 1..NFrames
Resources == 1..NResources
Addrs == 0..((HeapSlots + 1) * PtrAlign - 1)
NoBlock == <<0, NullPtr, 0>>
FrameInit ==
    /\ f_state = [f \in Frames |-> "none"]
    /\ f_ptr = [f \in Frames |-> NullPtr]
    /\ f_sz = [f \in Frames |-> 0]
    /\ mem = [a \in Addrs |-> 0]
    /\ mr_blocks = [r \in Resources |-> {}]
    /\ f_alloc = [f \in Frames |-> NoBlock]

\* the elements of the awaited vectors: <<v, e>> is element e of vector v
Elems == (1..NVecs) \X (1..MaxVec)

\* the coroutine is in its body, resumed by Job::operator() (m_children = 1), awaiting nothing
\* no caller has entered thread_task beyond the threads the job system counts on
EnterInit ==
    /\ x_pc = "none"
    /\ x_job = NoJob
    /\ x_noop = NOOP

AwaitInit ==
    /\ a_pc = "body"
    /\ a_kind = "none"
    /\ a_sizes = <<>>
    /\ a_pos = <<1, 1>>
    /\ a_children = 1
    /\ a_sched = [el \in Elems |-> 0]
    /\ a_done = {}

\* the pool holds NJobs jobs in PoolUnits units of memory; start_idx has its default
Init ==
    /\ SysInit /\ QInit /\ pool = [jobs |-> NJobs, units |-> PoolUnits] /\ JobSystem(0) /\ CoroInit
    /\ poll_cap = MaxPolls
    /\ InstInit
    /\ q_fifo = FALSE
    /\ FrameInit
    /\ AwaitInit
    /\ EnterInit

\* a new Job object: the next unused one of the pool
new_job == nalloc + 1

\* the units of the pool in use
units_used == nalloc + Cardinality({j \in Jobs : kind[j] = "coro"})

(***************************************************************************)
(* The public schedule() and continuation() wrappers.                      *)
(***************************************************************************)
\* schedule(function, thd) called with current job `parent` (NoJob: none) on thread idx
schedule_function(idx, parent, thd) ==
    LET c == new_job IN
    /\ nalloc < pool.jobs
    /\ units_used + 1 <= pool.units
    /\ nalloc' = c
    /\ kind' = [kind EXCEPT ![c] = "func"]
    /\ m_parent' = [m_parent EXCEPT ![c] = parent]
    /\ m_children' = IF parent # NoJob
                     THEN [m_children EXCEPT ![parent] = @ + 1]
                     ELSE m_children
    /\ schedule(idx, c, thd)
    /\ sched_thd' = [sched_thd EXCEPT ![c] = thd]
    /\ tree_parent' = [tree_parent EXCEPT ![c] = parent]
    /\ UNCHANGED <<m_continuation, m_coro_parent, m_thread_index, done>>

\* a schedule(T& coro) that does not count the coroutine as a child of the current job
schedule_coro_uncounted(idx, parent) ==
    LET c == new_job IN
    /\ nalloc < pool.jobs
    /\ units_used + 2 <= pool.units
    /\ nalloc' = c
    /\ kind' = [kind EXCEPT ![c] = "coro"]
    /\ m_continuation' = [m_continuation EXCEPT ![c] = c]
    /\ m_children' = m_children
    /\ m_coro_parent' = [m_coro_parent EXCEPT ![c] = parent]
    /\ schedule(idx, c, Central)
    /\ sched_thd' = [sched_thd EXCEPT ![c] = Central]
    /\ tree_parent' = [tree_parent EXCEPT ![c] = parent]
    /\ UNCHANGED <<m_parent, m_thread_index, done>>

\* schedule(T& coro) called with current job `parent` (NoJob: none) on thread idx
schedule_coro(idx, parent) ==
    LET c == new_job IN
    /\ nalloc < pool.jobs
    /\ units_used + 2 <= pool.units
    /\ nalloc' = c
    /\ kind' = [kind EXCEPT ![c] = "coro"]
    /\ m_continuation' = [m_continuation EXCEPT ![c] = c]
    /\ m_children' = IF parent # NoJob
                     THEN [m_children EXCEPT ![parent] = @ + 1]
                     ELSE m_children
    /\ m_coro_parent' = [m_coro_parent EXCEPT ![c] = parent]
    /\ schedule(idx, c, Central)
    /\ sched_thd' = [sched_thd EXCEPT ![c] = Central]
    /\ tree_parent' = [tree_parent EXCEPT ![c] = parent]
    /\ UNCHANGED <<m_parent, m_thread_index, done>>

\* the main thread (no current job, thread-local m_thread_index 0) schedules a function
MainScheduleFunction(thd) ==
    /\ nroots < MaxRoots
    /\ nroots' = nroots + 1
    /\ schedule_function(0, NoJob, thd)
    /\ UNCHANGED <<workervars, hops, cont_of, completed, fin_open, late_cf, resched, suspends>>
    /\ UNCHANGED beside_sys

\* the main thread schedules a coroutine
MainScheduleCoro ==
    /\ nroots < MaxRoots
    /\ nroots' = nroots + 1
    /\ schedule_coro(0, NoJob)
    /\ UNCHANGED <<workervars, hops, cont_of, completed, fin_open, late_cf, resched, suspends>>
    /\ UNCHANGED beside_sys

(***************************************************************************)
(* JobSystem::thread_task: the worker loop.                                *)
(***************************************************************************)
\* m_current_job = m_local_queues[m_thread_index]->pop()
PopLocal(w) ==
    /\ pc[w] = "poll"
    /\ m_current_job' = [m_current_job EXCEPT ![w] = pop_fifo(m_local_queues[w])]
    /\ m_local_queues' = [m_local_queues EXCEPT ![w] = rest_fifo(@)]
    /\ pc' = [pc EXCEPT ![w] = IF m_local_queues[w] = <<>> THEN "central" ELSE "start"]
    /\ UNCHANGED <<jobvars, m_central_queue, fin, nalloc, nroots, hops, histvars>>
    /\ UNCHANGED beside_sys

\* if (!m_current_job) m_current_job = m_central_queue->pop()
PopCentral(w) ==
    /\ pc[w] = "central"
    /\ m_current_job' = [m_current_job EXCEPT ![w] = pop_lifo(m_central_queue)]
    /\ m_central_queue' = rest_lifo(m_central_queue)
    /\ pc' = [pc EXCEPT ![w] = IF m_central_queue = <<>> THEN "poll" ELSE "start"]
    /\ UNCHANGED <<jobvars, m_local_queues, fin, nalloc, nroots, hops, histvars>>
    /\ UNCHANGED beside_sys

(***************************************************************************)
(* Job::operator(): m_children = 1; resume(); then the release of the      *)
(* job's own count.                                                        *)
(***************************************************************************)
\* m_children = 1 and the entry into resume(); a coroutine that is done is not resumed
Start(w) ==
    LET j == m_current_job[w] IN
    /\ pc[w] = "start"
    /\ m_children' = [m_children EXCEPT ![j] = 1]
    /\ fin_open' = [fin_open EXCEPT ![j] = FALSE]
    /\ pc' = [pc EXCEPT ![w] = IF kind[j] = "coro" /\ done[j] THEN "release" ELSE "body"]
    /\ UNCHANGED <<kind, m_parent, m_continuation, m_coro_parent, m_thread_index, done,
                   queuevars, m_current_job, fin, nalloc, nroots, hops,
                   sched_thd, tree_parent, cont_of, completed, late_cf, resched, pushes, suspends>>
    /\ UNCHANGED beside_sys

\* a function's body schedules a function as its child
FuncScheduleFunction(w, thd) ==
    /\ pc[w] = "body"
    /\ kind[m_current_job[w]] = "func"
    /\ schedule_function(w, m_current_job[w], thd)
    /\ UNCHANGED <<workervars, nroots, hops, cont_of, completed, fin_open, late_cf, resched, suspends>>
    /\ UNCHANGED beside_sys

\* a function's body schedules a coroutine as its child
FuncScheduleCoro(w) ==
    /\ pc[w] = "body"
    /\ kind[m_current_job[w]] = "func"
    /\ schedule_coro(w, m_current_job[w])
    /\ UNCHANGED <<workervars, nroots, hops, cont_of, completed, fin_open, late_cf, resched, suspends>>
    /\ UNCHANGED beside_sys

\* a function's body calls continuation(f): f follows the current job
FuncContinuation(w) ==
    LET j == m_current_job[w]
        c == new_job IN
    /\ pc[w] = "body"
    /\ kind[j] = "func"
    /\ m_continuation[j] = NoJob
    /\ nalloc < pool.jobs
    /\ units_used + 1 <= pool.units
    /\ nalloc' = c
    /\ kind' = [kind EXCEPT ![c] = "func"]
    /\ m_continuation' = [m_continuation EXCEPT ![j] = c]
    /\ cont_of' = [cont_of EXCEPT ![c] = j]
    /\ UNCHANGED <<m_children, m_parent, m_coro_parent, m_thread_index, done, queuevars,
                   workervars, nroots, hops, sched_thd, tree_parent, completed,
                   fin_open, late_cf, resched, pushes, suspends>>
    /\ UNCHANGED beside_sys

\* a function's body returns
FuncReturn(w) ==
    /\ pc[w] = "body"
    /\ kind[m_current_job[w]] = "func"
    /\ pc' = [pc EXCEPT ![w] = "release"]
    /\ UNCHANGED <<jobvars, queuevars, m_current_job, fin, nalloc, nroots, hops, histvars>>
    /\ UNCHANGED beside_sys

(***************************************************************************)
(* The coroutine body, between Coro_promise::resume() and its next         *)
(* suspension point.                                                       *)
(***************************************************************************)
\* co_await of a coroutine (one element of the awaited collection): await_suspend schedules it
CoroAwaitCoro(w) ==
    /\ pc[w] \in {"body", "awaiting"}
    /\ kind[m_current_job[w]] = "coro"
    /\ schedule_coro(w, m_current_job[w])
    /\ pc' = [pc EXCEPT ![w] = "awaiting"]
    /\ UNCHANGED <<m_current_job, fin, nroots, hops, cont_of, completed, fin_open, late_cf, resched, suspends>>
    /\ UNCHANGED beside_sys

\* co_await of a function (one element of the awaited collection): await_suspend schedules it
CoroAwaitFunction(w, thd) ==
    /\ pc[w] \in {"body", "awaiting"}
    /\ kind[m_current_job[w]] = "coro"
    /\ schedule_function(w, m_current_job[w], thd)
    /\ pc' = [pc EXCEPT ![w] = "awaiting"]
    /\ UNCHANGED <<m_current_job, fin, nroots, hops, cont_of, completed, fin_open, late_cf, resched, suspends>>
    /\ UNCHANGED beside_sys

\* await_suspend has scheduled every awaited child: the coroutine is suspended, resume() returns
CoroSuspend(w) ==
    /\ pc[w] = "awaiting"
    /\ pc' = [pc EXCEPT ![w] = "release"]
    /\ suspends' = [suspends EXCEPT ![m_current_job[w]] = @ + 1]
    /\ UNCHANGED <<jobvars, queuevars, m_current_job, fin, nalloc, nroots, hops,
                   sched_thd, tree_parent, cont_of, completed, fin_open, late_cf, resched, pushes>>
    /\ UNCHANGED beside_sys

\* JobSystem::thread_index() called on worker w: the index of the calling thread
thread_index(w) == w

\* an await_ready that always goes on with the suspension
resume_on_ready_never(w, k) == FALSE
\* awaitable_resume_on::awaiter::await_ready on worker w, for co_await thread_index{k}
resume_on_ready(w, k) == k = thread_index(w)

\* co_await thread_index{k}
CoroHop(w, k) ==
    LET j == m_current_job[w] IN
    /\ pc[w] = "body"
    /\ kind[j] = "coro"
    /\ hops[j] < MaxHops
    /\ hops' = [hops EXCEPT ![j] = @ + 1]
    /\ IF resume_on_ready(w, k)
       THEN UNCHANGED <<m_thread_index, pc, suspends>>
       ELSE /\ m_thread_index' = [m_thread_index EXCEPT ![j] = k]
            /\ suspends' = [suspends EXCEPT ![j] = @ + 1]
            /\ pc' = [pc EXCEPT ![w] = "release"]
    /\ UNCHANGED <<kind, m_children, m_parent, m_continuation, m_coro_parent, done,
                   queuevars, m_current_job, fin, nalloc, nroots,
                   sched_thd, tree_parent, cont_of, completed, fin_open, late_cf, resched, pushes>>
    /\ UNCHANGED beside_sys

\* co_return: final_suspend's awaiter enables the parent notification; the coroutine is done
CoroReturn(w) ==
    LET j == m_current_job[w] IN
    /\ pc[w] = "body"
    /\ kind[j] = "coro"
    /\ m_parent' = [m_parent EXCEPT ![j] = m_coro_parent[j]]
    /\ m_continuation' = [m_continuation EXCEPT ![j] = NoJob]
    /\ done' = [done EXCEPT ![j] = TRUE]
    /\ pc' = [pc EXCEPT ![w] = "release"]
    /\ UNCHANGED <<kind, m_children, m_coro_parent, m_thread_index, queuevars,
                   m_current_job, fin, nalloc, nroots, hops, histvars>>
    /\ UNCHANGED beside_sys

(***************************************************************************)
(* The completion protocol.                                                *)
(***************************************************************************)
\* m_children.fetch_sub(1) == 1: the value before the decrement was the last count
was_last(old) == old = 1

\* Job::operator(), after resume(): if (m_children.fetch_sub(1) == 1) on_finished()
Release(w) ==
    LET j == m_current_job[w] IN
    /\ pc[w] = "release"
    /\ m_children' = [m_children EXCEPT ![j] = @ - 1]
    /\ IF was_last(m_children[j])
       THEN /\ fin' = [fin EXCEPT ![w] = j]
            /\ pc' = [pc EXCEPT ![w] = "fin1"]
       ELSE /\ pc' = [pc EXCEPT ![w] = "poll"]
            /\ UNCHANGED fin
    /\ UNCHANGED <<kind, m_parent, m_continuation, m_coro_parent, m_thread_index, done,
                   queuevars, m_current_job, nalloc, nroots, hops, histvars>>
    /\ UNCHANGED beside_sys

\* the parent on_finished hands to the continuation, and counts it for
inherit_parent(j) == m_parent[j]

\* Job::on_finished, first half: the continuation inherits the parent and is scheduled
OnFinishedContinuation(w) ==
    LET j == fin[w]
        c == m_continuation[j]
        p == inherit_parent(j) IN
    /\ pc[w] = "fin1"
    /\ pc' = [pc EXCEPT ![w] = "fin2"]
    /\ completed' = [completed EXCEPT ![j] = @ \/ kind[j] = "func" \/ done[j]]
    /\ fin_open' = [fin_open EXCEPT ![j] = TRUE]
    /\ resched' = [resched EXCEPT ![w] = (c = j /\ p = NoJob)]
    /\ IF c # NoJob
       THEN /\ IF p # NoJob
               THEN /\ m_children' = [m_children EXCEPT ![p] = @ + 1]
                    /\ m_parent' = [m_parent EXCEPT ![c] = p]
                    /\ tree_parent' = [tree_parent EXCEPT ![c] = p]
               ELSE UNCHANGED <<m_children, m_parent, tree_parent>>
            /\ schedule(w, c, Central)
       ELSE UNCHANGED <<m_children, m_parent, tree_parent, queuevars, pushes>>
    /\ UNCHANGED <<kind, m_continuation, m_coro_parent, m_thread_index, done,
                   m_current_job, fin, nalloc, nroots, hops, sched_thd, cont_of, late_cf,
                   suspends>>
    /\ UNCHANGED beside_sys

\* the job on_finished notifies: m_parent as it is read after the continuation was scheduled
notified_parent(j) == m_parent[j]

\* Job::on_finished, second half, and the parent's child_finished
OnFinishedNotify(w) ==
    LET j == fin[w]
        p == notified_parent(j) IN
    /\ pc[w] = "fin2"
    /\ resched' = [resched EXCEPT ![w] = FALSE]
    /\ IF p # NoJob
       THEN /\ m_children' = [m_children EXCEPT ![p] = @ - 1]
            /\ late_cf' = IF fin_open[p] THEN late_cf \cup {p} ELSE late_cf
            /\ IF was_last(m_children[p])
               THEN /\ fin' = [fin EXCEPT ![w] = p]
                    /\ pc' = [pc EXCEPT ![w] = "fin1"]
               ELSE /\ pc' = [pc EXCEPT ![w] = "poll"]
                    /\ UNCHANGED fin
       ELSE /\ pc' = [pc EXCEPT ![w] = "poll"]
            /\ UNCHANGED <<m_children, late_cf, fin>>
    /\ UNCHANGED <<kind, m_parent, m_continuation, m_coro_parent, m_thread_index, done,
                   queuevars, m_current_job, nalloc, nroots, hops,
                   sched_thd, tree_parent, cont_of, completed, fin_open, pushes, suspends>>
    /\ UNCHANGED beside_sys

Next ==
    \/ \E thd \in {Central} \cup Threads : MainScheduleFunction(thd)
    \/ MainScheduleCoro
    \/ \E w \in Threads : PopLocal(w)
    \/ \E w \in Threads : PopCentral(w)
    \/ \E w \in Threads : Start(w)
    \/ \E w \in Threads, thd \in {Central} \cup Threads : FuncScheduleFunction(w, thd)
    \/ \E w \in Threads : FuncScheduleCoro(w)
    \/ \E w \in Threads : FuncContinuation(w)
    \/ \E w \in Threads : FuncReturn(w)
    \/ \E w \in Threads : CoroAwaitCoro(w)
    \/ \E w \in Threads, thd \in {Central} \cup Threads : CoroAwaitFunction(w, thd)
    \/ \E w \in Threads : CoroSuspend(w)
    \/ \E w \in Threads, k \in Threads : CoroHop(w, k)
    \/ \E w \in Threads : CoroReturn(w)
    \/ \E w \in Threads : Release(w)
    \/ \E w \in Threads : OnFinishedContinuation(w)
    \/ \E w \in Threads : OnFinishedNotify(w)

Spec == Init /\ [][Next]_vars

(***************************************************************************)
(* The job system over a pool of ContJobs jobs, for programs of functions  *)
(* with continuations: the main thread schedules a function, functions     *)
(* schedule functions and coroutines without naming a thread and install   *)
(* continuations, and a coroutine hops threads and co_returns.             *)
(***************************************************************************)
InitCont ==
    /\ SysInit /\ QInit /\ pool = [jobs |-> ContJobs, units |-> ContUnits] /\ JobSystem(0) /\ CoroInit
    /\ poll_cap = MaxPolls
    /\ InstInit
    /\ q_fifo = FALSE
    /\ FrameInit
    /\ AwaitInit
    /\ EnterInit

NextCont ==
    \/ MainScheduleFunction(Central)
    \/ \E w \in Threads : PopLocal(w)
    \/ \E w \in Threads : PopCentral(w)
    \/ \E w \in Threads : Start(w)
    \/ \E w \in Threads : FuncScheduleFunction(w, Central)
    \/ \E w \in Threads : FuncScheduleCoro(w)
    \/ \E w \in Threads : FuncContinuation(w)
    \/ \E w \in Threads : FuncReturn(w)
    \/ \E w \in Threads, k \in Threads : CoroHop(w, k)
    \/ \E w \in Threads : CoroReturn(w)
    \/ \E w \in Threads : Release(w)
    \/ \E w \in Threads : OnFinishedContinuation(w)
    \/ \E w \in Threads : OnFinishedNotify(w)

SpecCont == InitCont /\ [][NextCont]_vars

(***************************************************************************)
(* What the claims speak of.                                               *)
(***************************************************************************)
RECURSIVE tree_ancestors(_, _)
\* the jobs whose subtree holds job j: its parent chain, n links up
tree_ancestors(j, n) ==
    IF n = 0 \/ tree_parent[j] = NoJob
    THEN {}
    ELSE {tree_parent[j]} \cup tree_ancestors(tree_parent[j], n - 1)

\* job d is in the subtree of job p
in_subtree(d, p) == p \in tree_ancestors(d, Cardinality(Jobs))

\* the jobs linked into some queue
queued == {m_central_queue[i] : i \in 1..Len(m_central_queue)}
          \cup UNION {{m_local_queues[t][i] : i \in 1..Len(m_local_queues[t])} : t \in Threads}

\* worker w executes Job::operator() of job j, up to the release of its own count
executing(w, j) == m_current_job[w] = j /\ pc[w] \in {"start", "body", "awaiting", "release"}

\* C1: on_finished(P) begins only after on_finished has run for every job of P's subtree
C1_parent_finishes_after_subtree ==
    \A w \in Threads :
        pc[w] = "fin1" =>
            \A d \in Jobs : in_subtree(d, fin[w]) => completed[d]

\* C2: a continuation installed on J is pushed, and starts, only after J's body has
\* returned and on_finished has run for every job of J's subtree
C2_continuation_after_subtree ==
    \A c \in Jobs :
        (cont_of[c] # NoJob /\ pushes[c] > 0) =>
            /\ \A w \in Threads : ~ executing(w, cont_of[c])
            /\ \A d \in Jobs : in_subtree(d, cont_of[c]) => completed[d]

\* C3: a coroutine suspended at a co_await on children is re-enqueued once for that
\* co_await, and is queued or resumed only when on_finished has run for every awaited child
C3_coroutine_resumed_after_children ==
    \A p \in Jobs :
        kind[p] = "coro" =>
            /\ pushes[p] <= 1 + suspends[p]
            /\ (p \in queued \/ \E w \in Threads : m_current_job[w] = p /\ pc[w] \in {"start", "body"})
                   => \A d \in Jobs : tree_parent[d] = p => completed[d]

\* C4: m_children >= 0 for every job, in every reachable state
C4_children_nonneg == \A j \in Jobs : m_children[j] >= 0

\* C5: once on_finished(J) has begun, no child_finished(J) occurs for that completion
C5_no_child_finished_after_on_finished == late_cf = {}

\* C6: the continuation C of a job J with parent P becomes a child of P before J
\* notifies P: P.m_children is not zero during on_finished(J), and on_finished(P)
\* does not begin before on_finished(C)
C6_continuation_inherits_parent ==
    /\ \A w \in Threads :
           LET j == fin[w] IN
           (pc[w] = "fin2" /\ kind[j] = "func" /\ m_continuation[j] # NoJob /\ m_parent[j] # NoJob)
               => /\ m_parent[m_continuation[j]] = m_parent[j]
                  /\ m_children[m_parent[j]] >= 1
    /\ \A w \in Threads :
           pc[w] = "fin1" =>
               \A c \in Jobs :
                   (cont_of[c] # NoJob /\ m_parent[cont_of[c]] = fin[w]) => completed[c]

\* C7: schedule(job, k) with 0 <= k < thread_count puts the job into worker k's local
\* queue, and only worker k executes it
C7_affinity_local_queue ==
    /\ \A t \in Threads : \A i \in 1..Len(m_local_queues[t]) :
           sched_thd[m_local_queues[t][i]] = t
    /\ \A w \in Threads : \A j \in Jobs :
           (executing(w, j) /\ sched_thd[j] >= 0) => sched_thd[j] = w

\* C8: after co_await thread_index{k} the coroutine continues on worker k
C8_thread_hop ==
    \A w \in Threads : \A j \in Jobs :
        (m_current_job[w] = j /\ pc[w] \in {"body", "awaiting"} /\ kind[j] = "coro"
             /\ m_thread_index[j] >= 0)
            => m_thread_index[j] = w

\* how often job j is linked into the queues of the job system
times_queued(j) ==
    Cardinality({i \in 1..Len(m_central_queue) : m_central_queue[i] = j})
    + Cardinality({<<t, i>> \in Threads \X (1..Cardinality(Jobs) + 2) :
                       i <= Len(m_local_queues[t]) /\ m_local_queues[t][i] = j})

\* C11: every job is linked into at most one queue, and at most once: a coroutine
\* promise is not pushed again while it is still queued
C11_queued_at_most_once == \A j \in Jobs : times_queued(j) <= 1

\* C12: the continuation C of a function job J is pushed at most once, and only by
\* the step of on_finished(J) that schedules m_continuation
C12_continuation_scheduled_once ==
    [][\A c \in Jobs :
          (cont_of[c] # NoJob /\ pushes'[c] # pushes[c]) =>
              /\ pushes[c] = 0 /\ pushes'[c] = 1
              /\ \E w \in Threads :
                     /\ pc[w] = "fin1" /\ pc'[w] = "fin2"
                     /\ fin[w] = cont_of[c] /\ m_continuation[fin[w]] = c]_vars

\* the jobs counted as children of job p
children_of(p) == {d \in Jobs : tree_parent[d] = p}

\* job d is a trivial callable: a function scheduled without affinity that schedules
\* nothing and installs no continuation, and is no continuation itself
trivial(d) ==
    /\ kind[d] = "func" /\ sched_thd[d] = Central
    /\ cont_of[d] = NoJob /\ m_continuation[d] = NoJob
    /\ children_of(d) = {}

\* C15: when on_finished of a job that has scheduled trivial callables begins, the
\* body of each of them has been executed exactly once: it was pushed once, popped
\* and run to its on_finished, and is neither queued nor running
C15_trivial_children_run_once ==
    \A w \in Threads :
        pc[w] = "fin1" =>
            \A d \in children_of(fin[w]) :
                trivial(d) =>
                    /\ completed[d] /\ pushes[d] = 1
                    /\ times_queued(d) = 0
                    /\ \A x \in Threads : ~ executing(x, d)

\* the step schedules a new job through schedule(): it is created and pushed
scheduled_now(c) == nalloc' = c /\ nalloc = c - 1 /\ pushes'[c] = 1

RECURSIVE q_reachable(_, _)
\* the jobs linked from job `from` on, following m_next at most n times
q_reachable(from, n) ==
    IF from = NoJob \/ n = 0 THEN {} ELSE {from} \cup q_reachable(m_next[from], n - 1)

\* a pop starts only while fewer jobs have been returned than the bounds allow
\* pushes: a list the race has made cyclic would else be popped without end
MaxPops == QJobs * MaxPushes

RECURSIVE q_returned(_)
\* the number of returns of the jobs 1..n
q_returned(n) == IF n = 0 THEN 0 ELSE q_popped[n] + q_returned(n - 1)

\* the jobs in the queue: pushed, and not returned by a pop since
q_in == {j \in QJobSet : q_pushed[j] > q_popped[j]}

\* pJob->m_next = m_head.load()
push_load(FIFO, t, j) ==
    /\ q_pc[t] = "idle"
    /\ q_pushed[j] = q_popped[j]
    /\ q_pushed[j] < MaxPushes
    /\ \A u \in QThreadSet : ~ (q_pc[u] = "push_cas" /\ q_job[u] = j)
    /\ m_next' = [m_next EXCEPT ![j] = m_head]
    /\ q_job' = [q_job EXCEPT ![t] = j]
    /\ q_pc' = [q_pc EXCEPT ![t] = "push_cas"]
    /\ q_before' = IF FIFO THEN [q_before EXCEPT ![j] = q_in] ELSE q_before
    /\ q_seen' = [q_seen EXCEPT ![t] = FALSE]
    /\ UNCHANGED <<m_head, q_arg, q_retry, q_pushed, q_popped, q_log>>
    /\ UNCHANGED beside_queue

\* a push that stores the job to m_head without comparing m_head to pJob->m_next
push_store(t) ==
    LET j == q_job[t] IN
    /\ q_pc[t] = "push_cas"
    /\ m_head' = j
    /\ q_pushed' = [q_pushed EXCEPT ![j] = @ + 1]
    /\ q_pc' = [q_pc EXCEPT ![t] = "idle"]
    /\ UNCHANGED <<m_next, q_job, q_arg, q_retry, q_popped, q_before, q_log, q_seen>>
    /\ UNCHANGED beside_queue

\* while (!compare_exchange_weak(&m_head, &pJob->m_next, pJob)) {}: one iteration
push_cas(t) ==
    LET j == q_job[t] IN
    /\ q_pc[t] = "push_cas"
    /\ IF m_head = m_next[j]
       THEN /\ m_head' = j
            /\ q_pushed' = [q_pushed EXCEPT ![j] = @ + 1]
            /\ q_pc' = [q_pc EXCEPT ![t] = "idle"]
            /\ UNCHANGED m_next
       ELSE /\ m_next' = [m_next EXCEPT ![j] = m_head]
            /\ UNCHANGED <<m_head, q_pushed, q_pc>>
    /\ UNCHANGED <<q_job, q_arg, q_retry, q_popped, q_before, q_log, q_seen>>
    /\ UNCHANGED beside_queue

\* pop returns job j (NoJob: nullptr) by way `how`
pop_return(FIFO, t, j, how) ==
    /\ q_pc' = [q_pc EXCEPT ![t] = "idle"]
    /\ q_popped' = IF j = NoJob THEN q_popped ELSE [q_popped EXCEPT ![j] = @ + 1]
    /\ q_before' = IF FIFO
                   THEN [x \in QJobSet |-> IF x = j THEN {} ELSE q_before[x] \ {j}]
                   ELSE q_before
    /\ q_log' = IF j = NoJob \/ ~ FIFO
                THEN q_log
                ELSE LET early == q_before[j] \cap q_in # {}
                         behind == {x \in QJobSet : j \in q_before[x]} IN
                     [early |-> IF early THEN q_log.early \cup {how} ELSE q_log.early,
                      inorder |-> IF ~ early /\ j \in q_log.after
                                  THEN q_log.inorder \cup {how}
                                  ELSE q_log.inorder,
                      after |-> (q_log.after \ {j}) \cup behind]

\* a test that takes every head for nullptr
is_null_always(head) == TRUE

\* if (head == nullptr), while (head != nullptr && ...): the test of the local head
is_null(head) == head = NoJob

\* Job* head = m_head.load(); if (head == nullptr) return nullptr;  (LIFO)
pop_load_lifo(t) ==
    /\ q_pc[t] = "idle"
    /\ q_returned(QJobs) < MaxPops
    /\ q_job' = [q_job EXCEPT ![t] = m_head]
    /\ q_retry' = [q_retry EXCEPT ![t] = FALSE]
    /\ q_seen' = [q_seen EXCEPT ![t] = m_head = NoJob]
    /\ IF is_null(m_head)
       THEN pop_return(FALSE, t, NoJob, "empty")
       ELSE /\ q_pc' = [q_pc EXCEPT ![t] = "pop_next"]
            /\ UNCHANGED <<q_popped, q_before, q_log>>
    /\ UNCHANGED <<m_head, m_next, q_arg, q_pushed>>
    /\ UNCHANGED beside_queue

\* Job* head = m_head.load(); if (head == nullptr) return nullptr;  (FIFO)
pop_load_fifo(t) ==
    /\ q_pc[t] = "idle"
    /\ q_returned(QJobs) < MaxPops
    /\ q_job' = [q_job EXCEPT ![t] = m_head]
    /\ q_retry' = [q_retry EXCEPT ![t] = FALSE]
    /\ q_seen' = [q_seen EXCEPT ![t] = m_head = NoJob]
    /\ IF is_null(m_head)
       THEN pop_return(TRUE, t, NoJob, "empty")
       ELSE /\ q_pc' = [q_pc EXCEPT ![t] = "pop_walk"]
            /\ UNCHANGED <<q_popped, q_before, q_log>>
    /\ UNCHANGED <<m_head, m_next, q_arg, q_pushed>>
    /\ UNCHANGED beside_queue

\* the walk to the tail never entered: the FIFO pop takes the head as the LIFO pop does
has_next_never(j) == FALSE

\* while (head->m_next): there are more jobs in the list
has_next(j) == m_next[j] # NoJob

\* if (!head->m_next): the job the walk has reached is the last of the list
is_last(j) == m_next[j] = NoJob

\* while (head->m_next) { last = head; head = head->m_next; if (!head->m_next) {...} }: one iteration
pop_walk(t) ==
    LET last == q_job[t]
        head == m_next[last] IN
    /\ q_pc[t] = "pop_walk"
    /\ IF has_next(last)
       THEN IF is_last(head)
            THEN /\ m_next' = [m_next EXCEPT ![last] = NoJob]
                 /\ q_job' = [q_job EXCEPT ![t] = head]
                 /\ pop_return(TRUE, t, head, "walk")
            ELSE /\ q_job' = [q_job EXCEPT ![t] = head]
                 /\ UNCHANGED <<m_next, q_pc, q_popped, q_before, q_log>>
       ELSE /\ q_pc' = [q_pc EXCEPT ![t] = "pop_next"]
            /\ UNCHANGED <<m_next, q_job, q_popped, q_before, q_log>>
    /\ UNCHANGED <<m_head, q_arg, q_retry, q_pushed, q_seen>>
    /\ UNCHANGED beside_queue

\* while (head != nullptr && ...): the test of head, and the read of head->m_next
pop_next(FIFO, t) ==
    /\ q_pc[t] = "pop_next"
    /\ IF is_null(q_job[t])
       THEN /\ pop_return(FIFO, t, NoJob, "empty")
            /\ UNCHANGED q_arg
       ELSE /\ q_arg' = [q_arg EXCEPT ![t] = m_next[q_job[t]]]
            /\ q_pc' = [q_pc EXCEPT ![t] = "pop_cas"]
            /\ UNCHANGED <<q_popped, q_before, q_log>>
    /\ UNCHANGED <<m_head, m_next, q_job, q_retry, q_pushed, q_seen>>
    /\ UNCHANGED beside_queue

\* compare_exchange_weak(&m_head, &head, head->m_next)
pop_cas(FIFO, t) ==
    /\ q_pc[t] = "pop_cas"
    /\ IF m_head = q_job[t]
       THEN /\ m_head' = q_arg[t]
            /\ pop_return(FIFO, t, q_job[t], IF q_retry[t] THEN "retry" ELSE "cas")
            /\ UNCHANGED <<q_job, q_retry, q_seen>>
       ELSE /\ q_job' = [q_job EXCEPT ![t] = m_head]
            /\ q_seen' = [q_seen EXCEPT ![t] = m_head = NoJob]
            /\ q_retry' = [q_retry EXCEPT ![t] = TRUE]
            /\ q_pc' = [q_pc EXCEPT ![t] = "pop_next"]
            /\ UNCHANGED <<m_head, q_popped, q_before, q_log>>
    /\ UNCHANGED <<m_next, q_arg, q_pushed>>
    /\ UNCHANGED beside_queue

NextLifo ==
    \/ \E t \in QThreadSet, j \in QJobSet : push_load(FALSE, t, j)
    \/ \E t \in QThreadSet : push_cas(t)
    \/ \E t \in QThreadSet : pop_load_lifo(t)
    \/ \E t \in QThreadSet : pop_next(FALSE, t)
    \/ \E t \in QThreadSet : pop_cas(FALSE, t)

SpecLifo == Init /\ [][NextLifo]_vars

NextFifo ==
    \/ \E t \in QThreadSet \ {1}, j \in QJobSet : push_load(TRUE, t, j)
    \/ \E t \in QThreadSet \ {1} : push_cas(t)
    \/ pop_load_fifo(1)
    \/ pop_walk(1)
    \/ pop_next(TRUE, 1)
    \/ pop_cas(TRUE, 1)

SpecFifo == Init /\ [][NextFifo]_vars

\* the FIFO queue as the local queue of worker 1: thread 1, its one consumer, also pushes to
\* it (a job that schedules to its own thread), as the other threads do at any time
NextFifoOwn ==
    \/ NextFifo
    \/ \E j \in QJobSet : push_load(TRUE, 1, j)
    \/ push_cas(1)

SpecFifoOwn == Init /\ [][NextFifoOwn]_vars

C9_lifo_no_loss_no_duplicate ==
    /\ \A j \in QJobSet : q_popped[j] <= q_pushed[j]
    /\ q_in \subseteq q_reachable(m_head, QJobs)

InitPop ==
    /\ SysInit /\ QInit /\ pool = [jobs |-> NJobs, units |-> PoolUnits] /\ JobSystem(0) /\ CoroInit
    /\ poll_cap = MaxPolls
    /\ InstInit
    /\ q_fifo \in BOOLEAN
    /\ FrameInit
    /\ AwaitInit
    /\ EnterInit

NextPop ==
    \/ q_fifo /\ NextFifo
    \/ ~ q_fifo /\ NextLifo

SpecPop == InitPop /\ [][NextPop]_vars

\* the step is a pop of thread t that returns nullptr at once, at the read of m_head
null_at_load(t) ==
    /\ q_pc[t] = "idle" /\ q_pc'[t] = "idle"
    /\ q_job'[t] # q_job[t] \/ q_retry'[t] # q_retry[t] \/ q_seen'[t] # q_seen[t]

\* the step is a pop of thread t that returns nullptr from its compare-and-swap loop
null_at_retry(t) == q_pc[t] = "pop_next" /\ q_pc'[t] = "idle" /\ q_popped' = q_popped

\* C20: pop() on an empty queue (FIFO or LIFO) returns nullptr at once and
\* leaves the queue empty; pop() returns nullptr only if it read a null head,
\* at its first read of m_head or at a failed compare-and-swap.
C20_null_only_from_empty_head ==
    /\ [](\A t \in QThreadSet :
             q_pc[t] \in {"pop_walk", "pop_next", "pop_cas"} /\ ~ q_retry[t] => q_job[t] # NoJob)
    /\ [][\A t \in QThreadSet :
             /\ null_at_load(t) =>
                    /\ m_head = NoJob /\ m_head' = NoJob
                    /\ q_seen'[t] /\ q_popped' = q_popped /\ m_next' = m_next
             /\ null_at_retry(t) =>
                    /\ q_seen[t] /\ q_retry[t]
                    /\ m_head' = m_head /\ m_next' = m_next]_vars

C20_witness ==
    /\ ~ q_fifo
    /\ \E t, u \in QThreadSet :
           /\ q_pc[t] = "idle" /\ q_job[t] = NoJob /\ q_seen[t] /\ q_retry[t]
           /\ q_pc[u] = "idle" /\ q_job[u] = NoJob /\ q_seen[u] /\ ~ q_retry[u]

(***************************************************************************)
(* The life of the job system (specification SpecLife): construction with  *)
(* a start_idx, the start barrier and the loop of thread_task, the main    *)
(* thread entering as thread 0, terminate(), wait_for_termination() and    *)
(* the destructor.  The jobs are counted, not told apart: the main thread  *)
(* schedules them and their bodies return or call terminate().             *)
(***************************************************************************)
InitLife ==
    /\ SysInit /\ QInit /\ pool = [jobs |-> NJobs, units |-> PoolUnits]
    /\ \E start_idx \in 0..MaxStartIdx : JobSystem(start_idx)
    /\ poll_cap = MaxPolls
    /\ InstInit
    /\ CoroInit
    /\ q_fifo = FALSE
    /\ FrameInit
    /\ AwaitInit
    /\ EnterInit

\* -- of a uint32_t (noop, thread_counter).  The number is held as the 32-bit two's
\* complement number with the same bits (4294967295 is -1, 2147483648 is MinInt32): the
\* decrement and the test for zero are the same on the bits, and the decrement wraps where
\* the bits do.
MinInt32 == (-2147483647) - 1
MaxInt32 == 2147483647
dec32(n) == IF n = MinInt32 THEN MaxInt32 ELSE n - 1

\* a > b of two uint32_t, on the numbers that hold their bits: a number below zero holds
\* a value of 2147483648 or more
above_u32(a, b) == IF (a < 0) = (b < 0) THEN a > b ELSE a < 0

\* thread_task: m_thread_index = threadIndex; thread_counter--
LEnter(t) ==
    /\ t_pc[t] = "entry"
    /\ thread_counter' = dec32(thread_counter)
    /\ t_pc' = [t_pc EXCEPT ![t] = "barrier"]
    /\ UNCHANGED <<m_start_idx, m_terminate, m_threads, joinable, t_from, main_pc, in_dtor,
                   join_i, n_local, n_central, l_sched, l_thds, ran0_by, entered0, waits>>
    /\ UNCHANGED <<m_current_job, loopvars>>
    /\ UNCHANGED beside_life

\* a start that does not wait for the other threads
barrier_open_always(counter) == TRUE

\* while (thread_counter.load() > 0) sleep: the loop ends when the counter is not above zero
barrier_open(counter) == ~ above_u32(counter, 0)

\* the thread leaves the wait at the start of thread_task
LBarrier(t) ==
    /\ t_pc[t] = "barrier"
    /\ barrier_open(thread_counter)
    /\ t_pc' = [t_pc EXCEPT ![t] = "loop"]
    /\ UNCHANGED <<m_start_idx, m_terminate, m_threads, joinable, thread_counter, t_from, main_pc,
                   in_dtor, join_i, n_local, n_central, l_sched, l_thds, ran0_by, entered0, waits>>
    /\ UNCHANGED <<m_current_job, loopvars>>
    /\ UNCHANGED beside_life

\* a loop that looks for jobs in local queue 0, whatever the thread
polled_queue_zero(t) == 0

\* m_local_queues[m_thread_index]->pop(): the local queue the thread with index t polls
polled_queue(t) == t

RECURSIVE in_local_queues(_)
\* the number of jobs in the local queues of the threads 0..t
in_local_queues(t) == IF t < 0 THEN 0 ELSE n_local[t] + in_local_queues(t - 1)

\* the job a pop returns: the jobs are numbered in the order they are popped
next_job == l_sched - (n_central + in_local_queues(NThreads - 1)) + 1

\* else if (--noop == 0): a test that leaves out the thread index
sleeps_any(idx, n) == n = 0
\* else if (--noop == 0 && m_thread_index > 0): n is noop after the decrement
sleeps(idx, n) == n = 0 /\ idx > 0

\* a loop that does not read the terminate flag
loop_goes_on_always(flag) == TRUE
\* while (!m_terminate): the loop condition, evaluated at the start of each pass
loop_goes_on(flag) == ~ flag

\* one pass of while (!m_terminate): pop the local queue, then the central queue; a job found
\* is executed; if none was found noop is counted down, and at zero a thread but thread 0 sets
\* it to NOOP and sleeps; noop of thread 0 is counted down past zero.
LLoop(t) ==
    LET q == polled_queue(t) IN
    /\ t_pc[t] = "loop"
    /\ IF ~ loop_goes_on(m_terminate)
       THEN /\ t_pc' = [t_pc EXCEPT ![t] = "exited"]
            /\ UNCHANGED <<n_local, n_central, t_from, ran0_by, m_current_job, noop, empty_run>>
       ELSE IF n_local[q] > 0
       THEN /\ n_local' = [n_local EXCEPT ![q] = @ - 1]
            /\ m_current_job' = [m_current_job EXCEPT ![t] = next_job]
            /\ t_from' = [t_from EXCEPT ![t] = q]
            /\ ran0_by' = IF q = 0 THEN ran0_by \cup {t} ELSE ran0_by
            /\ t_pc' = [t_pc EXCEPT ![t] = "run"]
            /\ empty_run' = [empty_run EXCEPT ![t] = 0]
            /\ UNCHANGED <<n_central, noop>>
       ELSE IF n_central > 0
       THEN /\ n_central' = n_central - 1
            /\ m_current_job' = [m_current_job EXCEPT ![t] = next_job]
            /\ t_from' = [t_from EXCEPT ![t] = Central]
            /\ t_pc' = [t_pc EXCEPT ![t] = "run"]
            /\ empty_run' = [empty_run EXCEPT ![t] = 0]
            /\ UNCHANGED <<n_local, ran0_by, noop>>
       ELSE /\ NOOP - noop[t] < poll_cap
            /\ m_current_job' = [m_current_job EXCEPT ![t] = NoJob]
            /\ noop' = [noop EXCEPT ![t] = IF sleeps(t, dec32(@)) THEN NOOP ELSE dec32(@)]
            /\ empty_run' = [empty_run EXCEPT ![t] = IF sleeps(t, dec32(noop[t])) THEN 0 ELSE @ + 1]
            /\ UNCHANGED <<n_local, n_central, t_from, ran0_by, t_pc>>
    /\ UNCHANGED <<m_start_idx, m_terminate, m_threads, joinable, thread_counter, main_pc,
                   in_dtor, join_i, l_sched, l_thds, entered0, waits, poll_cap>>
    /\ UNCHANGED beside_life

\* (*m_current_job)() returns
LRun(t) ==
    /\ t_pc[t] = "run"
    /\ t_pc' = [t_pc EXCEPT ![t] = "loop"]
    /\ UNCHANGED <<m_start_idx, m_terminate, m_threads, joinable, thread_counter, t_from, main_pc,
                   in_dtor, join_i, n_local, n_central, l_sched, l_thds, ran0_by, entered0, waits>>
    /\ UNCHANGED <<m_current_job, loopvars>>
    /\ UNCHANGED beside_life

\* terminate(), called by the job that thread t executes
Terminate(t) ==
    /\ t_pc[t] = "run"
    /\ ~ m_terminate
    /\ m_terminate' = TRUE
    /\ UNCHANGED <<m_start_idx, m_threads, joinable, thread_counter, t_pc, t_from, main_pc,
                   in_dtor, join_i, n_local, n_central, l_sched, l_thds, ran0_by, entered0, waits>>
    /\ UNCHANGED <<m_current_job, loopvars>>
    /\ UNCHANGED beside_life

\* terminate(), called by the main thread
MainTerminate ==
    /\ main_pc = "user"
    /\ ~ m_terminate
    /\ m_terminate' = TRUE
    /\ UNCHANGED <<m_start_idx, m_threads, joinable, thread_counter, t_pc, t_from, main_pc,
                   in_dtor, join_i, n_local, n_central, l_sched, l_thds, ran0_by, entered0, waits>>
    /\ UNCHANGED <<m_current_job, loopvars>>
    /\ UNCHANGED beside_life

\* values of thd that are neither -1 nor the index of a thread
OutOfRange == {-2, NThreads, NThreads + 1}

\* JobSystem::schedule(job, thd) on the main thread, whose m_thread_index is 0
LSchedule(thd) ==
    /\ main_pc = "user"
    /\ l_sched < MaxLJobs
    /\ l_sched' = l_sched + 1
    /\ l_thds' = l_thds \cup ({thd} \cap OutOfRange)
    /\ IF names_thread(thd)
       THEN /\ n_local' = [n_local EXCEPT ![schedule_local_index(0, thd)] = @ + 1]
            /\ UNCHANGED n_central
       ELSE /\ n_central' = n_central + 1
            /\ UNCHANGED n_local
    /\ UNCHANGED <<m_start_idx, m_terminate, m_threads, joinable, thread_counter, t_pc, t_from,
                   main_pc, in_dtor, join_i, ran0_by, entered0, waits>>
    /\ UNCHANGED <<m_current_job, loopvars>>
    /\ UNCHANGED beside_life

\* the main thread calls thread_task(0): it enters the job system as thread 0
MainEnter0 ==
    /\ main_pc = "user"
    /\ t_pc[0] = "none"
    /\ ~ entered0
    /\ entered0' = TRUE
    /\ main_pc' = "task0"
    /\ t_pc' = [t_pc EXCEPT ![0] = "entry"]
    /\ UNCHANGED <<m_start_idx, m_terminate, m_threads, joinable, thread_counter, t_from,
                   in_dtor, join_i, n_local, n_central, l_sched, l_thds, ran0_by, waits>>
    /\ UNCHANGED <<m_current_job, loopvars>>
    /\ UNCHANGED beside_life

\* thread_task(0) returns to the main thread
MainLeave0 ==
    /\ main_pc = "task0"
    /\ t_pc[0] = "exited"
    /\ main_pc' = "user"
    /\ UNCHANGED <<m_start_idx, m_terminate, m_threads, joinable, thread_counter, t_pc, t_from,
                   in_dtor, join_i, n_local, n_central, l_sched, l_thds, ran0_by, entered0, waits>>
    /\ UNCHANGED <<m_current_job, loopvars>>
    /\ UNCHANGED beside_life

\* the main thread calls wait_for_termination()
MainWait ==
    /\ main_pc = "user"
    /\ waits < MaxWaits
    /\ main_pc' = "join"
    /\ join_i' = 1
    /\ in_dtor' = FALSE
    /\ UNCHANGED <<m_start_idx, m_terminate, m_threads, joinable, thread_counter, t_pc, t_from,
                   n_local, n_central, l_sched, l_thds, ran0_by, entered0, waits>>
    /\ UNCHANGED <<m_current_job, loopvars>>
    /\ UNCHANGED beside_life

\* JobSystem::~JobSystem: m_terminate = true; wait_for_termination()
MainDtor ==
    /\ main_pc = "user"
    /\ m_terminate' = TRUE
    /\ main_pc' = "join"
    /\ join_i' = 1
    /\ in_dtor' = TRUE
    /\ UNCHANGED <<m_start_idx, m_threads, joinable, thread_counter, t_pc, t_from,
                   n_local, n_central, l_sched, l_thds, ran0_by, entered0, waits>>
    /\ UNCHANGED <<m_current_job, loopvars>>
    /\ UNCHANGED beside_life

\* wait_for_termination: pThread->join() returns when the thread has exited;
\* join() of a thread that is not joinable throws std::system_error
MainJoin ==
    LET t == m_threads[join_i] IN
    /\ main_pc = "join"
    /\ join_i <= Len(m_threads)
    /\ IF ~ joinable[t]
       THEN /\ main_pc' = "error"
            /\ UNCHANGED <<joinable, join_i>>
       ELSE /\ t_pc[t] = "exited"
            /\ joinable' = [joinable EXCEPT ![t] = FALSE]
            /\ join_i' = join_i + 1
            /\ UNCHANGED main_pc
    /\ UNCHANGED <<m_start_idx, m_terminate, m_threads, thread_counter, t_pc, t_from, in_dtor,
                   n_local, n_central, l_sched, l_thds, ran0_by, entered0, waits>>
    /\ UNCHANGED <<m_current_job, loopvars>>
    /\ UNCHANGED beside_life

\* wait_for_termination returns: every thread of m_threads was joined
MainWaitReturn ==
    /\ main_pc = "join"
    /\ join_i > Len(m_threads)
    /\ IF in_dtor
       THEN /\ main_pc' = "gone"
            /\ UNCHANGED waits
       ELSE /\ main_pc' = "user"
            /\ waits' = waits + 1
    /\ UNCHANGED <<m_start_idx, m_terminate, m_threads, joinable, thread_counter, t_pc, t_from,
                   in_dtor, join_i, n_local, n_central, l_sched, l_thds, ran0_by, entered0>>
    /\ UNCHANGED <<m_current_job, loopvars>>
    /\ UNCHANGED beside_life

NextLife ==
    \/ \E t \in Threads : LEnter(t)
    \/ \E t \in Threads : LBarrier(t)
    \/ \E t \in Threads : LLoop(t)
    \/ \E t \in Threads : LRun(t)
    \/ \E t \in Threads : Terminate(t)
    \/ MainTerminate
    \/ \E thd \in {Central} \cup Threads \cup OutOfRange : LSchedule(thd)
    \/ MainEnter0
    \/ MainLeave0
    \/ MainWait
    \/ MainDtor
    \/ MainJoin
    \/ MainWaitReturn

SpecLife == InitLife /\ [][NextLife]_vars

\* wait_for_termination() is under way and has not returned
waiting == main_pc = "join"

\* C13: once the terminate flag is set, every spawned worker exits thread_task
\* and wait_for_termination() returns, whatever the workers were doing and for
\* every start_idx.  Checked in its finite form: while the flag is set and
\* wait_for_termination() has not returned, the system can take a step.
C13_terminate_ends_wait == (m_terminate /\ waiting) => ENABLED NextLife

\* C14: wait_for_termination() called again after every worker has exited and
\* was joined (the destructor's call after an explicit one included) returns
\* normally: no join throws.
C14_wait_is_idempotent == main_pc # "error"

\* C19: constructed with start_idx = 1, the job system has no thread for
\* worker 0 and executes no job of local queue 0 until the main thread calls
\* thread_task(0); after that the main thread executes the jobs of that queue,
\* it alone, and leaves thread_task only when terminate is set.
C19_worker0_is_the_caller ==
    m_start_idx = 1 =>
        /\ ~ entered0 => (t_pc[0] = "none" /\ ran0_by = {} /\ 0 \notin {m_threads[i] : i \in 1..Len(m_threads)})
        /\ ran0_by \subseteq {0}
        /\ (entered0 /\ t_pc[0] = "exited") => m_terminate
        /\ (entered0 /\ t_pc[0] # "exited") => main_pc = "task0"

C19_witness ==
    /\ m_start_idx = 1 /\ entered0 /\ ran0_by = {0} /\ main_pc = "user" /\ n_local[0] = 0 /\ l_sched = MaxLJobs

\* the number of jobs in the queues, local and central
in_queues == n_central + in_local_queues(NThreads - 1)

MainEnterAgain ==
    /\ main_pc = "user"
    /\ x_pc = "none"
    /\ m_start_idx = 0 \/ entered0
    /\ main_pc' = "task0"
    /\ x_pc' = "barrier"
    /\ thread_counter' = dec32(thread_counter)
    /\ UNCHANGED <<m_start_idx, m_terminate, m_threads, joinable, t_pc, t_from, in_dtor, join_i,
                   n_local, n_central, l_sched, l_thds, ran0_by, entered0, waits>>
    /\ UNCHANGED <<m_current_job, loopvars, x_job, x_noop>>
    /\ UNCHANGED beside_enter

\* that caller leaves the wait at the start of thread_task
ExtraBarrier ==
    /\ x_pc = "barrier"
    /\ barrier_open(thread_counter)
    /\ x_pc' = "loop"
    /\ UNCHANGED <<lifevars, m_current_job, loopvars, x_job, x_noop>>
    /\ UNCHANGED beside_enter

\* one pass of while (!m_terminate) by that caller, whose m_thread_index is 0, with its own
\* m_current_job and noop (both thread_local); when the loop ends thread_task returns
ExtraLoop ==
    LET q == polled_queue(0) IN
    /\ x_pc = "loop"
    /\ IF ~ loop_goes_on(m_terminate)
       THEN /\ x_pc' = "exited"
            /\ main_pc' = "user"
            /\ UNCHANGED <<n_local, n_central, ran0_by, x_job, x_noop>>
       ELSE IF n_local[q] > 0
       THEN /\ n_local' = [n_local EXCEPT ![q] = @ - 1]
            /\ x_job' = next_job
            /\ ran0_by' = IF q = 0 THEN ran0_by \cup {0} ELSE ran0_by
            /\ x_pc' = "run"
            /\ UNCHANGED <<n_central, main_pc, x_noop>>
       ELSE IF n_central > 0
       THEN /\ n_central' = n_central - 1
            /\ x_job' = next_job
            /\ x_pc' = "run"
            /\ UNCHANGED <<n_local, ran0_by, main_pc, x_noop>>
       ELSE /\ NOOP - x_noop < poll_cap
            /\ x_job' = NoJob
            /\ x_noop' = IF sleeps(0, dec32(x_noop)) THEN NOOP ELSE dec32(x_noop)
            /\ UNCHANGED <<n_local, n_central, ran0_by, main_pc, x_pc>>
    /\ UNCHANGED <<m_start_idx, m_terminate, m_threads, joinable, thread_counter, t_pc, t_from,
                   in_dtor, join_i, l_sched, l_thds, entered0, waits>>
    /\ UNCHANGED <<m_current_job, loopvars>>
    /\ UNCHANGED beside_enter

\* (*m_current_job)() returns to that caller; the job has called terminate() or has not
ExtraRun ==
    /\ x_pc = "run"
    /\ x_pc' = "loop"
    /\ m_terminate' \in {m_terminate, TRUE}
    /\ UNCHANGED <<m_start_idx, m_threads, joinable, thread_counter, t_pc, t_from, main_pc,
                   in_dtor, join_i, n_local, n_central, l_sched, l_thds, ran0_by, entered0, waits>>
    /\ UNCHANGED <<m_current_job, loopvars, x_job, x_noop>>
    /\ UNCHANGED beside_enter

NextEnter ==
    \/ NextLife
    \/ MainEnterAgain
    \/ ExtraBarrier
    \/ ExtraLoop
    \/ ExtraRun

SpecEnter == InitLife /\ [][NextEnter]_vars

\* the number of times thread_task has been entered
entries ==
    Cardinality({t \in Threads : t_pc[t] \notin {"none", "entry"}}) + (IF x_pc = "none" THEN 0 ELSE 1)

\* C39: the barrier counter of thread_task never goes below 0: it stays within
\* 0..m_thread_count, and once m_thread_count threads have entered the barrier
\* is open to every thread that has entered, also when thread_task is entered
\* more than m_thread_count times.
C39_barrier_counter_never_wraps ==
    /\ ~ above_u32(thread_counter, NThreads)
    /\ entries >= NThreads => barrier_open(thread_counter)

(***************************************************************************)
(* The coroutine's promise, frame and future (specification SpecCoro):     *)
(* co_return and the final suspension, get(), and the destructor of the    *)
(* future, for NCoros coroutines that are created, scheduled and resumed.  *)
(***************************************************************************)
\* Coro_promise::return_value
return_value(f, t) == m_value' = [m_value EXCEPT ![f] = t]

\* final_awaiter::await_suspend, as far as the frame is concerned: the coroutine
\* stays suspended, m_count is not touched
final_suspend_count(count) == count

\* Coro_promise::get
get(f) == m_value[f]

\* an initial_suspend() that returns suspend_never: the body runs when the coroutine is created
suspends_initially_never == FALSE
\* initial_suspend() returns suspend_always
suspends_initially == TRUE

\* the kinds of job current_job() can be: "none" (nullptr), "job" (a function), "coro"
JobKinds == {"none", "job", "coro"}

\* a call of the coroutine function: Coro_promise::Coro_promise and get_return_object (the
\* promise holds T{}, the future holds the handle), then initial_suspend
CoCreate(f) ==
    /\ c_at[f] = "none"
    /\ m_coro' = [m_coro EXCEPT ![f] = TRUE]
    /\ c_at' = [c_at EXCEPT ![f] = IF suspends_initially THEN "created" ELSE "running"]
    /\ UNCHANGED <<m_count, m_value, c_done, c_destroyed, c_dropped, c_returned, c_got,
                   c_parent, c_resumed, c_notified>>
    /\ UNCHANGED beside_coro

\* schedule(T& coro) where current_job() is cur: m_coro_parent = current_job(), and the
\* promise is pushed to a queue
CoSchedule(f, cur) ==
    /\ c_at[f] = "created"
    /\ m_coro[f]
    /\ c_destroyed[f] = 0
    /\ c_parent' = [c_parent EXCEPT ![f] = cur]
    /\ c_at' = [c_at EXCEPT ![f] = "queued"]
    /\ UNCHANGED <<m_coro, m_count, m_value, c_done, c_destroyed, c_dropped, c_returned, c_got,
                   c_resumed, c_notified>>
    /\ UNCHANGED beside_coro

\* a worker has popped the promise: Job::operator() calls resume(), which resumes the body
CoResume(f) ==
    /\ c_at[f] = "queued"
    /\ c_destroyed[f] = 0
    /\ c_at' = [c_at EXCEPT ![f] = "running"]
    /\ c_resumed' = [c_resumed EXCEPT ![f] = TRUE]
    /\ UNCHANGED <<m_coro, m_count, m_value, c_done, c_destroyed, c_dropped, c_returned, c_got,
                   c_parent, c_notified>>
    /\ UNCHANGED beside_coro

\* the coroutine's body runs to co_return t: return_value(t), then the final suspension,
\* where m_parent = m_coro_parent; on_finished then calls child_finished() of a parent
CoReturn(f, t) ==
    /\ c_at[f] = "running"
    /\ ~ c_done[f]
    /\ c_destroyed[f] = 0
    /\ return_value(f, t)
    /\ m_count' = [m_count EXCEPT ![f] = final_suspend_count(@)]
    /\ c_done' = [c_done EXCEPT ![f] = TRUE]
    /\ c_at' = [c_at EXCEPT ![f] = "final"]
    /\ c_returned' = [c_returned EXCEPT ![f] = {t}]
    /\ c_notified' = [c_notified EXCEPT ![f] = c_parent[f] \in {"job", "coro"}]
    /\ UNCHANGED <<m_coro, c_destroyed, c_dropped, c_got, c_parent, c_resumed>>
    /\ UNCHANGED beside_coro

\* Coro::get on a future that holds the handle
CoGet(f) ==
    /\ m_coro[f]
    /\ c_destroyed[f] = 0
    /\ c_got' = [c_got EXCEPT ![f] = @ \cup {[value |-> get(f), returned |-> c_done[f]]}]
    /\ c_got' # c_got
    /\ UNCHANGED <<m_coro, m_count, m_value, c_done, c_destroyed, c_dropped, c_returned,
                   c_at, c_parent, c_resumed, c_notified>>
    /\ UNCHANGED beside_coro

\* what Coro::~Coro does where current_job() is cur: nothing ("neither"), m_coro.destroy()
\* ("direct"), or the decrement of m_count with destroy() at the last count ("joint")
drop_mode(cur) ==
    IF cur = "none" THEN "neither" ELSE IF cur = "coro" THEN "direct" ELSE "joint"

\* Coro::~Coro where current_job() is cur: "none" (nullptr), "job" (a function) or
\* "coro" (a coroutine; it drops the future of a coroutine that has reached its end)
CoDrop(f, cur) ==
    /\ m_coro[f]
    /\ cur = "coro" => c_done[f]
    /\ m_coro' = [m_coro EXCEPT ![f] = FALSE]
    /\ c_dropped' = [c_dropped EXCEPT ![f] = cur]
    /\ IF drop_mode(cur) = "neither"
       THEN UNCHANGED <<m_count, c_destroyed>>
       ELSE IF drop_mode(cur) = "direct"
       THEN /\ c_destroyed' = [c_destroyed EXCEPT ![f] = @ + 1]
            /\ UNCHANGED m_count
       ELSE /\ m_count' = [m_count EXCEPT ![f] = @ - 1]
            /\ c_destroyed' = IF m_count[f] = 1
                              THEN [c_destroyed EXCEPT ![f] = @ + 1]
                              ELSE c_destroyed
    /\ UNCHANGED <<m_value, c_done, c_returned, c_got, c_at, c_parent, c_resumed, c_notified>>
    /\ UNCHANGED beside_coro

InitCoro == Init

NextCoro ==
    \/ \E f \in Coros : CoCreate(f)
    \/ \E f \in Coros, cur \in JobKinds : CoSchedule(f, cur)
    \/ \E f \in Coros : CoResume(f)
    \/ \E f \in Coros, t \in Values : CoReturn(f, t)
    \/ \E f \in Coros : CoGet(f)
    \/ \E f \in Coros, cur \in JobKinds : CoDrop(f, cur)

SpecCoro == InitCoro /\ [][NextCoro]_vars

\* the coroutine from its creation to its end, without the calls of get()
NextCreate ==
    \/ \E f \in Coros : CoCreate(f)
    \/ \E f \in Coros, cur \in JobKinds : CoSchedule(f, cur)
    \/ \E f \in Coros : CoResume(f)
    \/ \E f \in Coros, t \in Values : CoReturn(f, t)
    \/ \E f \in Coros, cur \in JobKinds : CoDrop(f, cur)

SpecCreate == InitCoro /\ [][NextCreate]_vars

\* C17: the frame of a coroutine whose future is dropped in a function (the
\* parent is a plain callable) is destroyed exactly once, by the later of
\* 'future dropped' and 'promise finalized': never before the final
\* suspension, never twice, and it is destroyed once both have happened.
C17_last_owner_destroys_frame ==
    \A f \in Coros :
        c_dropped[f] = "job" =>
            /\ c_destroyed[f] <= 1
            /\ c_destroyed[f] = 1 => c_done[f]
            /\ c_done[f] => c_destroyed[f] = 1

\* C18: get() reports a ready value exactly when the promise has reached its
\* co_return, that value is the co_returned one, and a result of get() before
\* co_return differs from every ready result.
C18_get_tells_ready ==
    /\ \A f \in Coros : \A r \in c_got[f] : r.returned => r.value \in c_returned[f]
    /\ \A f, g \in Coros : \A r \in c_got[f], q \in c_got[g] :
           (~ r.returned /\ q.returned) => r.value # q.value

\* C21: schedule(job, a) with a < 0 or a >= thread_count is schedule(job, -1):
\* the job goes to the central queue, no local queue is touched and nothing
\* else of the scheduler changes.
C21_out_of_range_is_central ==
    [][\A a \in OutOfRange :
          LSchedule(a) =>
              /\ n_central' = n_central + 1
              /\ n_local' = n_local
              /\ UNCHANGED <<m_start_idx, m_terminate, m_threads, joinable, thread_counter,
                             t_pc, t_from, main_pc, in_dtor, join_i>>]_vars

C21_witness ==
    /\ l_thds \subseteq OutOfRange
    /\ \E a, b \in l_thds : a < 0 /\ b >= NThreads
    /\ n_central = 2 /\ \A t \in Threads : n_local[t] = 0

(***************************************************************************)
(* The notification of a coroutine's parent.                               *)
(***************************************************************************)
\* C24: an on_finished that found m_continuation == this and no m_parent on entry (it puts the
\* promise back into a queue after an intermediate suspension) never calls child_finished on
\* the promise's coro_parent, whatever another worker does with the promise meanwhile
C24_reschedule_never_notifies ==
    [][\A w \in Threads :
          (OnFinishedNotify(w) /\ resched[w]) => notified_parent(fin[w]) = NoJob]_vars

\* worker w is inside coro.resume() of the coroutine j: in its body or in an await_suspend
inside_resume(w, j) ==
    m_current_job[w] = j /\ kind[j] = "coro" /\ pc[w] \in {"body", "awaiting"}

\* C25: no two workers are inside coro.resume() of the same coroutine at the same time
C25_one_worker_in_body ==
    \A w1, w2 \in Threads : \A j \in Jobs :
        (inside_resume(w1, j) /\ inside_resume(w2, j)) => w1 = w2

\* worker w is in an await_suspend of the coroutine j that has scheduled some of the awaited
\* children and has not returned
scheduling_children(w, j) ==
    m_current_job[w] = j /\ kind[j] = "coro" /\ pc[w] = "awaiting"

\* C26: while an await_suspend is scheduling the awaited children, the awaiting promise's
\* m_children is not zero (or less), and no on_finished of the promise has begun since the
\* promise was resumed
C26_count_held_while_scheduling ==
    \A w \in Threads : \A j \in Jobs :
        scheduling_children(w, j) =>
            /\ m_children[j] > 0
            /\ ~ fin_open[j]
            /\ \A x \in Threads : ~ (pc[x] = "fin1" /\ fin[x] = j)

(***************************************************************************)
(* The start and the loop of thread_task.                                  *)
(***************************************************************************)
\* the thread with index t has entered thread_task, stored its index and counted itself
entered(t) == t_pc[t] \notin {"none", "entry"}

\* the thread with index t is past the wait at the start of thread_task
past_barrier(t) == t_pc[t] \in {"loop", "run", "exited"}

\* C27: no thread is past the start of thread_task, has popped or executes a job before each
\* of the m_thread_count threads (thread 0 driven by the caller for start_idx = 1) has entered;
\* thread_counter is the number of threads yet to enter, zero exactly when all have
C27_start_barrier ==
    /\ thread_counter = NThreads - Cardinality({t \in Threads : entered(t)})
    /\ (thread_counter = 0) <=> (\A t \in Threads : entered(t))
    /\ (\E t \in Threads : past_barrier(t) \/ m_current_job[t] # NoJob \/ noop[t] # NOOP)
           => \A t \in Threads : entered(t)
    /\ (\E t \in Threads : ~ entered(t)) => l_sched = n_central + in_local_queues(NThreads - 1)

C27_witness ==
    /\ m_start_idx = 1 /\ entered0
    /\ thread_counter = 0
    /\ t_pc[0] = "run" /\ t_pc[1] = "run"

\* C28: a pass of the loop of thread t takes a job from no local queue but its own, takes the
\* job of its own local queue if there is one, and takes a job from the central queue only when
\* its own local queue held none
C28_local_queue_first ==
    [][\A t \in Threads :
          LLoop(t) =>
              /\ \A u \in Threads \ {t} : n_local'[u] = n_local[u]
              /\ (n_local[t] > 0 /\ ~ m_terminate) =>
                     (n_local'[t] = n_local[t] - 1 /\ n_central' = n_central /\ t_from'[t] = t)
              /\ n_central' # n_central =>
                     (n_local[t] = 0 /\ n_central' = n_central - 1 /\ t_from'[t] = Central)]_vars

C28_witness ==
    /\ t_pc[0] = "run" /\ t_from[0] = 0 /\ n_central > 0
    /\ t_pc[1] = "loop"

\* the thread with index t executes a job: it is inside (*m_current_job)()
executes_job(t) == t_pc[t] = "run"

\* C29: on every thread current_job() is the job the thread executes while it executes one,
\* and nullptr while it executes none, also after the thread has left the loop of thread_task
C29_current_job_or_null ==
    \A t \in Threads :
        /\ executes_job(t) => m_current_job[t] # NoJob
        /\ ~ executes_job(t) => m_current_job[t] = NoJob
        /\ \A u \in Threads \ {t} :
               (executes_job(t) /\ executes_job(u)) => m_current_job[t] # m_current_job[u]

(***************************************************************************)
(* The idle worker (specification SpecIdle): the threads of a job system   *)
(* constructed with start_idx 0 poll their queues while the main thread    *)
(* schedules jobs to the central queue; the run follows IdlePolls polls    *)
(* that find no job for every setting of a thread's noop.                  *)
(***************************************************************************)
InitIdle ==
    /\ SysInit /\ QInit /\ pool = [jobs |-> NJobs, units |-> PoolUnits]
    /\ JobSystem(0)
    /\ poll_cap = IdlePolls
    /\ InstInit
    /\ CoroInit
    /\ q_fifo = FALSE
    /\ FrameInit
    /\ AwaitInit
    /\ EnterInit

NextIdle ==
    \/ \E t \in Threads : LEnter(t)
    \/ \E t \in Threads : LBarrier(t)
    \/ \E t \in Threads : LLoop(t)
    \/ \E t \in Threads : LRun(t)
    \/ LSchedule(Central)

SpecIdle == InitIdle /\ [][NextIdle]_vars

\* the pass of the loop of thread t after which the thread sleeps
goes_to_sleep(t) == LLoop(t) /\ t_pc'[t] = "loop" /\ sleeps(t, dec32(noop[t]))

\* C30: a thread with index > 0 sleeps only at the NOOP-th of NOOP polls in a row that found
\* no job: the polls before a poll that found a job do not count
C30_sleep_after_polls_in_a_row ==
    [][\A t \in Threads \ {0} : goes_to_sleep(t) => empty_run[t] = NOOP - 1]_vars

\* C31: worker 0 never sleeps: every poll of thread 0 that finds no job counts noop down by
\* one in 32 bits and goes on polling, also at zero and after noop has wrapped
C31_worker_zero_never_sleeps ==
    [][(LLoop(0) /\ t_pc'[0] = "loop")
          => /\ ~ goes_to_sleep(0)
             /\ noop'[0] = dec32(noop[0])
             /\ empty_run'[0] = empty_run[0] + 1]_vars

\* thread 0 has polled NOOP + 1 times in a row without a job: its noop has wrapped
C31_witness == noop[0] = -1 /\ empty_run[0] = NOOP + 1

(***************************************************************************)
(* JobSystem::instance() (specification SpecInstance): NCallers threads    *)
(* call instance(threadCount, start_idx), each up to MaxCalls times.       *)
(***************************************************************************)
\* a call_once that executes the callable at every call
once_runs_always(flag) == TRUE

\* std::call_once executes the callable if the flag is not set
once_runs(flag) == flag = "clear"

\* JobSystem::JobSystem: if (m_thread_count == 0) m_thread_count = hardware_concurrency()
thread_count_of(threadCount) == IF threadCount = 0 THEN HwThreads ELSE threadCount

\* std::make_unique<JobSystem>(threadCount, start_idx), the id-th job system constructed
make_unique(id, threadCount, start_idx) ==
    [id |-> id, m_thread_count |-> thread_count_of(threadCount), m_start_idx |-> start_idx]

\* a thread calls instance(threadCount, start_idx)
ICall(c, threadCount, start_idx) ==
    /\ i_pc[c] = "out"
    /\ i_calls[c] < MaxCalls
    /\ i_calls' = [i_calls EXCEPT ![c] = @ + 1]
    /\ i_args' = [i_args EXCEPT ![c] = <<threadCount, start_idx>>]
    /\ i_pc' = [i_pc EXCEPT ![c] = "once"]
    /\ UNCHANGED <<once, m_instance, i_ret, i_first, i_built>>
    /\ UNCHANGED beside_inst

\* std::call_once(once, ...): the thread waits while another thread executes the callable;
\* it executes the callable itself if the flag is not set, and goes on if it is
ICallOnce(c) ==
    /\ i_pc[c] = "once"
    /\ once # "active"
    /\ IF once_runs(once)
       THEN /\ once' = "active"
            /\ i_pc' = [i_pc EXCEPT ![c] = "make"]
       ELSE /\ i_pc' = [i_pc EXCEPT ![c] = "ret"]
            /\ UNCHANGED once
    /\ UNCHANGED <<m_instance, i_args, i_calls, i_ret, i_first, i_built>>
    /\ UNCHANGED beside_inst

\* the callable: m_instance = std::make_unique<JobSystem>(threadCount, start_idx); the flag is set
IMake(c) ==
    /\ i_pc[c] = "make"
    /\ m_instance' = make_unique(i_built + 1, i_args[c][1], i_args[c][2])
    /\ i_built' = i_built + 1
    /\ i_first' = IF i_built = 0 THEN i_args[c] ELSE i_first
    /\ once' = "set"
    /\ i_pc' = [i_pc EXCEPT ![c] = "ret"]
    /\ UNCHANGED <<i_args, i_calls, i_ret>>
    /\ UNCHANGED beside_inst

\* return m_instance
IReturn(c) ==
    /\ i_pc[c] = "ret"
    /\ i_ret' = [i_ret EXCEPT ![c] = m_instance]
    /\ i_pc' = [i_pc EXCEPT ![c] = "out"]
    /\ UNCHANGED <<once, m_instance, i_args, i_calls, i_first, i_built>>
    /\ UNCHANGED beside_inst

InitInstance == Init

NextInstance ==
    \/ \E c \in Callers, threadCount \in 0..MaxThreadCount, start_idx \in 0..MaxStartIdx :
           ICall(c, threadCount, start_idx)
    \/ \E c \in Callers : ICallOnce(c)
    \/ \E c \in Callers : IMake(c)
    \/ \E c \in Callers : IReturn(c)

SpecInstance == InitInstance /\ [][NextInstance]_vars

\* C23: instance() constructs the job system once, however the calls of the threads
\* interleave; every call returns that job system; its number of threads and queues and its
\* start_idx are those of the arguments of the call that constructed it, whatever threadCount
\* and start_idx the other calls pass
C23_instance_constructed_once ==
    /\ i_built <= 1
    /\ \A c \in Callers :
           /\ i_pc[c] = "ret" => (i_built = 1 /\ m_instance # NoInstance)
           /\ i_ret[c] # NoInstance => i_ret[c] = m_instance
    /\ i_built >= 1 => m_instance = make_unique(1, i_first[1], i_first[2])

C23_witness ==
    /\ \A c \in Callers : i_ret[c] = m_instance /\ i_calls[c] = MaxCalls /\ i_pc[c] = "out"
    /\ \E c \in Callers :
           /\ thread_count_of(i_args[c][1]) # m_instance.m_thread_count
           /\ i_args[c][2] # m_instance.m_start_idx

(***************************************************************************)
(* The jobs of a tree reach the workers through the central queue.         *)
(***************************************************************************)
\* no push and no pop of the queue is under way
queue_at_rest == \A t \in QThreadSet : q_pc[t] = "idle"

\* C22, in the form a finite run refutes: a job that was scheduled is executed only if a pop
\* of its queue returns it; when the central queue is empty and no push or pop is under way,
\* every job pushed has been returned by a pop (one that has not is never executed and never
\* reaches on_finished, however the workers are scheduled from then on)
C22_scheduled_job_reaches_a_worker ==
    (queue_at_rest /\ m_head = NoJob) => q_in = {}

(***************************************************************************)
(* The future's destructor and the coroutine's parent.                     *)
(***************************************************************************)
\* C34: the destructor of the future of a coroutine that has a parent applies the mode of that
\* parent's kind, the joint decrement of m_count for a function and the destruction of the
\* frame for a coroutine, whatever job is current on the thread that drops the future
C34_drop_mode_follows_coro_parent ==
    \A f \in Coros :
        (c_dropped[f] # "no" /\ c_parent[f] \in {"job", "coro"}) =>
            drop_mode(c_dropped[f]) = (IF c_parent[f] = "coro" THEN "direct" ELSE "joint")

all_done == queued = {} /\ \A w \in Threads : pc[w] = "poll"

\* C35: m_children of a function P that is executed once is set to 1 and then changes only by
\* the increments for the jobs scheduled as children of P (its own, and the continuations that
\* inherit P) and by the decrements, so the decrements are as many as those jobs plus 1
\* exactly if the count is 0 when all is done
C35_decrements_match_children ==
    all_done => \A j \in Jobs : (kind[j] = "func" /\ pushes[j] = 1) => m_children[j] = 0

(***************************************************************************)
(* The thread hop.                                                         *)
(***************************************************************************)
\* C33: co_await thread_index{k} executed on worker k does not suspend: the affinity of the
\* promise stays as it was, nothing is pushed to a queue, and the worker is still in the
\* body of the same job, inside the same resume()
C33_hop_to_own_thread_goes_on ==
    [][\A w \in Threads :
          CoroHop(w, w) =>
              /\ m_thread_index' = m_thread_index
              /\ UNCHANGED <<queuevars, pushes, suspends, m_children>>
              /\ pc[w] = "body" /\ pc'[w] = "body"
              /\ m_current_job'[w] = m_current_job[w]]_vars

\* a coroutine that was scheduled once and never suspended is in its body behind a hop, on a
\* worker that is not the one of its affinity
C33_witness ==
    \E w \in Threads :
        LET j == m_current_job[w] IN
        /\ j # NoJob /\ kind[j] = "coro" /\ pc[w] = "body"
        /\ hops[j] = 1 /\ suspends[j] = 0 /\ pushes[j] = 1
        /\ m_thread_index[j] # w

(***************************************************************************)
(* The allocation of coroutine frames (specification SpecFrame):           *)
(* Coro_promise_base::operator new stores the pointer to the memory       *)
(* resource behind the frame, operator delete reads it there.  NFrames     *)
(* frames of sizes up to MaxSz are allocated from NResources memory resources *)
(* and deleted, in any order.                                              *)
(***************************************************************************)
\* (sz + alignof(std::pmr::memory_resource*) - 1) & ~(alignof(std::pmr::memory_resource*) - 1):
\* with PtrAlign a power of two the mask clears the bits below PtrAlign
align_up(sz) == ((sz + PtrAlign - 1) \div PtrAlign) * PtrAlign

\* operator new: auto allocatorOffset = ...
new_offset(sz) == align_up(sz)

\* an operator delete that looks for the pointer right behind the sz bytes of the frame
delete_offset_unaligned(sz) == sz
\* operator delete: auto allocatorOffset = ...
delete_offset(sz) == align_up(sz)

\* the bytes of a block
block_bytes(ptr, bytes) == ptr..(ptr + bytes - 1)

\* the blocks allocated from any memory resource
live_blocks == UNION {mr_blocks[r] : r \in Resources}

\* mr->allocate(bytes) may return: nullptr, or an address aligned for any type at which
\* bytes bytes lie in the heap beside the blocks already allocated
may_allocate(bytes) ==
    {NullPtr} \cup
    {p \in {k * PtrAlign : k \in 1..HeapSlots} :
        /\ p + bytes - 1 \in Addrs
        /\ \A b \in live_blocks : p + bytes <= b[1] \/ b[1] + b[2] <= p}

\* void* operator new(std::size_t sz, std::allocator_arg_t, std::pmr::memory_resource* mr, ...);
\* std::terminate() ends the process, with its frames and its memory
FrameNew(f, sz, mr) ==
    LET allocatorOffset == new_offset(sz) IN
    /\ \A g \in Frames : f_state[g] # "terminated"
    /\ f_state[f] = "none"
    /\ \E ptr \in may_allocate(allocatorOffset + PtrSize) :
           IF ptr = NullPtr
           THEN /\ f_state' = [g \in Frames |-> "terminated"]
                /\ f_ptr' = [g \in Frames |-> NullPtr]
                /\ f_sz' = [g \in Frames |-> 0]
                /\ mem' = [a \in Addrs |-> 0]
                /\ mr_blocks' = [r \in Resources |-> {}]
                /\ f_alloc' = [g \in Frames |-> NoBlock]
           ELSE /\ f_state' = [f_state EXCEPT ![f] = "live"]
                /\ mr_blocks' = [mr_blocks EXCEPT ![mr] = @ \cup {<<ptr, allocatorOffset + PtrSize>>}]
                /\ mem' = [mem EXCEPT ![ptr + allocatorOffset] = mr]
                /\ f_ptr' = [f_ptr EXCEPT ![f] = ptr]
                /\ f_sz' = [f_sz EXCEPT ![f] = sz]
                /\ f_alloc' = [f_alloc EXCEPT ![f] = <<mr, ptr, allocatorOffset + PtrSize>>]
    /\ UNCHANGED beside_frame

\* operator delete(f_ptr[f], f_sz[f]): the memory resource it reads behind the frame, and the
\* pointer and the number of bytes it passes to deallocate
deallocates(f) ==
    LET ptr == f_ptr[f]
        allocatorOffset == delete_offset(f_sz[f])
        allocator == mem[ptr + allocatorOffset] IN
    <<allocator, ptr, allocatorOffset + PtrSize>>

\* void operator delete(void* ptr, std::size_t sz), called for the frame with the sz of its
\* operator new; a deallocate of a block a memory resource did not allocate leaves its blocks
FrameDelete(f) ==
    LET d == deallocates(f) IN
    /\ \A g \in Frames : f_state[g] # "terminated"
    /\ f_state[f] = "live"
    /\ mr_blocks' = [r \in Resources |-> IF r = d[1] THEN mr_blocks[r] \ {<<d[2], d[3]>>}
                                                    ELSE mr_blocks[r]]
    /\ f_state' = [f_state EXCEPT ![f] = "none"]
    /\ f_ptr' = [f_ptr EXCEPT ![f] = NullPtr]
    /\ f_sz' = [f_sz EXCEPT ![f] = 0]
    /\ f_alloc' = [f_alloc EXCEPT ![f] = NoBlock]
    /\ UNCHANGED mem
    /\ UNCHANGED beside_frame

\* frame sizes below, at and above a multiple of the alignment
FrameSizes == (PtrAlign - 1)..MaxSz

InitFrame == Init

NextFrame ==
    \/ \E f \in Frames, sz \in FrameSizes, mr \in Resources : FrameNew(f, sz, mr)
    \/ \E f \in Frames : FrameDelete(f)

SpecFrame == InitFrame /\ [][NextFrame]_vars

\* C40: operator delete, called for a live frame with the sz of the frame's operator new,
\* passes to deallocate the memory resource that operator new was given, the pointer it
\* returned and the number of bytes it allocated, whatever was allocated and deleted before;
\* so the blocks allocated from the memory resources are at any time those of the live frames
C40_delete_recovers_new ==
    /\ \A f \in Frames : f_state[f] = "live" => deallocates(f) = f_alloc[f]
    /\ \A r \in Resources :
           mr_blocks[r] = {<<f_alloc[f][2], f_alloc[f][3]>> :
                              f \in {g \in Frames : f_state[g] = "live" /\ f_alloc[g][1] = r}}

\* a frame has been deleted (the pointer it stored is in memory, outside every block) while a
\* frame allocated from another memory resource, of a size that is no multiple of the
\* alignment, is live; the blocks allocated are those of the live frames
C40_witness ==
    /\ \E a \in Addrs :
           /\ mem[a] # 0
           /\ \A b \in live_blocks : a \notin block_bytes(b[1], b[2])
           /\ \E g \in Frames :
                  /\ f_state[g] = "live" /\ f_alloc[g][1] # mem[a]
                  /\ new_offset(f_sz[g]) # f_sz[g]

(***************************************************************************)
(* co_await of children (specification SpecAwait): a coroutine awaits one  *)
(* child, a vector of up to MaxVec children, or a tuple of NVecs such      *)
(* vectors, again and again; the children finish at any time.              *)
(***************************************************************************)
RECURSIVE size_sum(_)
\* num += std::get<Idx>(m_tuple).size() for every tuple element
size_sum(sizes) == IF sizes = <<>> THEN 0 ELSE Head(sizes) + size_sum(Tail(sizes))

\* an await_ready that looks at the first vector of the tuple only
tuple_ready_first(sizes) == sizes[1] = 0
\* awaitable_tuple::awaiter::await_ready: return (num == 0)
tuple_ready(sizes) == size_sum(sizes) = 0

\* awaitable_coro::awaiter::await_ready: m_child.empty() for a vector, false for one child
coro_ready(what, sizes) == IF what = "vector" THEN sizes[1] = 0 ELSE FALSE

\* await_ready of the awaiter the co_await creates
await_ready(what, sizes) == IF what = "tuple" THEN tuple_ready(sizes) ELSE coro_ready(what, sizes)

\* the awaited children
awaited == {el \in Elems : el[1] <= Len(a_sizes) /\ el[2] <= a_sizes[el[1]]}

\* the operands of co_await: one child, a vector, a tuple of vectors
Operands ==
    {<<"coro", <<1>>>>}
    \cup {<<"vector", <<n>>>> : n \in 0..MaxVec}
    \cup {<<"tuple", sizes>> : sizes \in [1..NVecs -> 0..MaxVec]}

\* the body reaches co_await of an operand; Job::operator() has set m_children = 1
AwaitBegin(what, sizes) ==
    /\ a_pc = "body"
    /\ a_kind' = what
    /\ a_sizes' = sizes
    /\ a_pc' = "await_ready"
    /\ a_children' = 1
    /\ a_sched' = [el \in Elems |-> 0]
    /\ a_done' = {}
    /\ a_pos' = <<1, 1>>
    /\ UNCHANGED beside_await

\* await_ready(): if true the coroutine goes on without suspending, else await_suspend follows
AwaitReady ==
    /\ a_pc = "await_ready"
    /\ a_pc' = IF await_ready(a_kind, a_sizes) THEN "skipped" ELSE "await_suspend"
    /\ UNCHANGED <<a_kind, a_sizes, a_pos, a_children, a_sched, a_done>>
    /\ UNCHANGED beside_await

\* await_suspend(): schedule() of every tuple element in turn, which schedules every element
\* of the vector as a child of the current job; when it returns the coroutine is suspended
AwaitSchedule ==
    LET v == a_pos[1]
        e == a_pos[2] IN
    /\ a_pc = "await_suspend"
    /\ IF v > Len(a_sizes)
       THEN /\ a_pc' = "suspended"
            /\ UNCHANGED <<a_pos, a_children, a_sched>>
       ELSE IF e > a_sizes[v]
       THEN /\ a_pos' = <<v + 1, 1>>
            /\ UNCHANGED <<a_pc, a_children, a_sched>>
       ELSE /\ a_children' = a_children + 1
            /\ a_sched' = [a_sched EXCEPT ![<<v, e>>] = @ + 1]
            /\ a_pos' = <<v, e + 1>>
            /\ UNCHANGED a_pc
    /\ UNCHANGED <<a_kind, a_sizes, a_done>>
    /\ UNCHANGED beside_await

\* resume() has returned to Job::operator(): if (m_children.fetch_sub(1) == 1) on_finished(),
\* which schedules the promise again
AwaitRelease ==
    /\ a_pc = "suspended"
    /\ a_children' = a_children - 1
    /\ a_pc' = IF a_children = 1 THEN "resumed" ELSE "waiting"
    /\ UNCHANGED <<a_kind, a_sizes, a_pos, a_sched, a_done>>
    /\ UNCHANGED beside_await

\* a child finishes: child_finished() of the promise, on_finished() at the last count
ChildFinished(el) ==
    /\ a_sched[el] > 0
    /\ el \notin a_done
    /\ a_done' = a_done \cup {el}
    /\ a_children' = a_children - 1
    /\ a_pc' = IF a_children = 1 THEN "resumed" ELSE a_pc
    /\ UNCHANGED <<a_kind, a_sizes, a_pos, a_sched>>
    /\ UNCHANGED beside_await

\* the body goes on behind the co_await
AwaitResume ==
    /\ a_pc \in {"skipped", "resumed"}
    /\ a_pc' = "body"
    /\ UNCHANGED <<a_kind, a_sizes, a_pos, a_children, a_sched, a_done>>
    /\ UNCHANGED beside_await

InitAwait == Init

NextAwait ==
    \/ \E op \in Operands : AwaitBegin(op[1], op[2])
    \/ AwaitReady
    \/ AwaitSchedule
    \/ AwaitRelease
    \/ \E el \in Elems : ChildFinished(el)
    \/ AwaitResume

SpecAwait == InitAwait /\ [][NextAwait]_vars

====
